---- MODULE Spec2Model ----
(***************************************************************************)
(* Model of the perceive-reason-act orchestrator of                        *)
(* src/py_files/agent_core.py (AgentCore.run_autonomous_loop, AgentCore.act *)
(* and the helpers they call).  Confidence values are kept in hundredths   *)
(* (0.1 is 10, 0.3 is 30, ...); state.progress is kept as the exact        *)
(* fraction <<numerator, denominator>>.                                    *)
(***************************************************************************)
EXTENDS Integers, Sequences, FiniteSets, TLC

\* ------------------------------------------------------------------ bounds
\* longest Plan the planning oracle returns in the model
MaxPlanLen == 2
\* largest max_iterations argument a caller passes in the model
MaxIterArg == 5
\* number of loop iterations explored in one run (caps the default budget)
IterCap == 6
\* the error budget a caller configures (agent.max_errors = args.max_errors)
MaxErrorsCfg == 3

\* ------------------------------------------------------- program constants
DefaultMaxErrors == 5
DefaultMaxIterations == 50
AbortConfidence == 10
LowConfidence == 30

MsgGoalAchieved == "Goal achieved"
MsgInitialPerceptionFailed == "Initial perception failed"
MsgStoppedByUser == "Stopped by user"
MsgUnexpectedError == "Unexpected error"
MsgMaxIterations == "Max iterations reached without achieving goal"

\* Python's None for the max_iterations argument
None == -1

VARIABLES
    pc,                     \* position inside run_autonomous_loop
    max_errors,             \* self.max_errors
    self_max_iterations,    \* self.max_iterations
    max_iterations,         \* the max_iterations argument of the call
    max_iter,               \* local max_iter
    iterations,             \* local iterations
    error_count,            \* self.state.error_count
    progress,               \* self.state.progress
    goal,                   \* keyword family of the goal text
    long_range_plan,        \* self.reasoning.long_range_plan
    perception_data,        \* local perception_data
    reasoning_result,       \* local reasoning_result
    action_result,          \* local action_result
    post_action_perception, \* local post_action_perception
    ret,                    \* how the call ended: pending, dict, None, KeyboardInterrupt
    result,                 \* the returned dictionary
    event,                  \* outcome of the last step taken
    termination,            \* which return site ended the run
    fails_since_reset,      \* failed iterations since error_count was last 0
    act_fail_streak,        \* consecutive latest iterations whose ACT failed
    plan_created            \* what the LONG_PLAN stage of this call stored

AgentVars == <<pc, max_errors, self_max_iterations, max_iterations, max_iter,
          iterations, error_count, progress, goal, long_range_plan,
          perception_data, reasoning_result, action_result,
          post_action_perception, ret, result, event, termination,
          fails_since_reset, act_fail_streak, plan_created>>

\* ------------------------------------------- components outside the loop
\* The goal check, the select executor, the correlator, the element collector
\* and the two throttles are modelled on their own data; while the loop of
\* run_autonomous_loop is explored they stay at rest, and conversely.
VARIABLES
    stage,                  \* scenario: start, acted, observed, checked
    goal_text,              \* the goal string of the call
    reasoned_confidence,    \* reasoning_result["confidence"], in hundredths
    completion_indicators,  \* long_range_plan["completion_indicators"]
    network_status,         \* system_state.network_status
    ax_element,             \* the accessibility element on screen
    plan_step,              \* the step of the Plan handed to act
    action_outcome,         \* what act returned
    ui_signals,             \* perception_data["ui_signals"]
    achieved                \* what _is_goal_achieved returned

ScenarioVars == <<stage, goal_text, reasoned_confidence,
                  completion_indicators,
                  network_status, ax_element, plan_step, action_outcome,
                  ui_signals, achieved>>

NoElement ==
    [present |-> FALSE, identifier |-> "", title |-> "", role |-> "",
     options |-> <<>>, value |-> ""]
NoStep == [action |-> "", target |-> "", option |-> ""]
NoOutcome == [ran |-> FALSE, success |-> FALSE, selected |-> ""]

ScenarioIdle ==
    /\ stage = "idle"
    /\ goal_text = ""
    /\ reasoned_confidence = 0
    /\ completion_indicators = <<>>
    /\ network_status = "unknown"
    /\ ax_element = NoElement
    /\ plan_step = NoStep
    /\ action_outcome = NoOutcome
    /\ ui_signals = <<>>
    /\ achieved = "unset"

VARIABLES
    signals_in,             \* the ui_signals argument of the correlator
    visual_in,              \* visual_analysis.interactive_elements
    correlations,           \* "correlations" of the latest call on them
    first_correlations,     \* "correlations" of the first call on them
    correlate_calls,        \* calls made on these arguments
    used_so_far             \* visual keys any earlier call has put in its set

CorrelateVars == <<signals_in, visual_in, correlations, first_correlations,
                   correlate_calls, used_so_far>>

CorrelateIdle ==
    /\ signals_in = <<>>
    /\ visual_in = <<>>
    /\ correlations = <<>>
    /\ first_correlations = <<>>
    /\ correlate_calls = 0
    /\ used_so_far = {}

VARIABLES
    collector,              \* which PerceptionEngine: py_files or src
    ui_tree,                \* the elements findAllR yields, in tree order
    seen_elements,          \* self.seen_elements
    elements,               \* ids of the signals the latest call returned
    first_ids,              \* set of ids the first call returned
    discover_calls          \* calls of discover_ui_signals made

DiscoverVars == <<collector, ui_tree, seen_elements, elements, first_ids,
                  discover_calls>>

DiscoverIdle ==
    /\ collector = "none"
    /\ ui_tree = <<>>
    /\ seen_elements = {}
    /\ elements = <<>>
    /\ first_ids = {}
    /\ discover_calls = 0

VARIABLES
    now,                        \* time.time(), in seconds
    last_gemini_request_time,   \* ReasoningEngine._last_gemini_request_time
    last_vlm_request_time,      \* PerceptionEngine._last_vlm_request_time
    planner_request,            \* when the latest planning-oracle call started
    planner_gap,                \* seconds between the latest two such calls
    vlm_request,                \* when the latest visual-oracle request left
    vlm_request_gap,            \* seconds between the latest two requests
    vlm_stamp_gap,              \* seconds between the latest two timestamps
    first_vlm_wait,             \* seconds the first capture call slept
    oracle_calls                \* oracle calls made so far

ThrottleVars == <<now, last_gemini_request_time, last_vlm_request_time,
                  planner_request, planner_gap, vlm_request, vlm_request_gap,
                  vlm_stamp_gap, first_vlm_wait, oracle_calls>>

ThrottleIdle ==
    /\ now = 0
    /\ last_gemini_request_time = 0
    /\ last_vlm_request_time = None
    /\ planner_request = None
    /\ planner_gap = None
    /\ vlm_request = None
    /\ vlm_request_gap = None
    /\ vlm_stamp_gap = None
    /\ first_vlm_wait = None
    /\ oracle_calls = 0

VARIABLES
    requested_app,          \* the target_app argument of discover_ui_signals
    app_running,            \* the requested application is running
    ax_failure,             \* which accessibility call raises, if any
    installed,              \* "open" can start the requested application
    app_tree,               \* elements of the application's window
    open_commands,          \* "open" commands the collector has run
    discovered,             \* what the latest discover_ui_signals returned
    lookup_calls,           \* calls of discover_ui_signals made
    running_at_call         \* app_running when the latest call started

LookupVars == <<requested_app, app_running, ax_failure, installed, app_tree,
                open_commands, discovered, lookup_calls, running_at_call>>

NotCalled == [kind |-> "none", elements |-> <<>>]

LookupIdle ==
    /\ requested_app = ""
    /\ app_running = FALSE
    /\ ax_failure = "none"
    /\ installed = FALSE
    /\ app_tree = <<>>
    /\ open_commands = 0
    /\ discovered = NotCalled
    /\ lookup_calls = 0
    /\ running_at_call = FALSE

\* locals of run_autonomous_loop before their first assignment
NoPerception == [error |-> FALSE, indicator |-> FALSE, snap |-> "none"]
NoReasoning == [error |-> FALSE, plan |-> <<>>, confidence |-> 0, from |-> "none"]
NoAction == [success |-> FALSE, partial |-> FALSE, results |-> <<>>]

VARIABLES
    mem_stage,              \* position of the iteration the store follows
    mem_iteration,          \* local iterations
    mem_snapshot,           \* perception_data of the iteration
    mem_plan,               \* reasoning_result of the iteration
    mem_outcome,            \* action_result of the iteration
    perceptions,            \* MemorySystem.perceptions
    reasonings,             \* MemorySystem.reasonings
    actions,                \* MemorySystem.actions
    stored_before           \* the three lists before the latest step

MemoryVars == <<mem_stage, mem_iteration, mem_snapshot, mem_plan, mem_outcome,
                perceptions, reasonings, actions, stored_before>>

MemoryIdle ==
    /\ mem_stage = "idle"
    /\ mem_iteration = 0
    /\ mem_snapshot = NoPerception
    /\ mem_plan = NoReasoning
    /\ mem_outcome = NoAction
    /\ perceptions = <<>>
    /\ reasonings = <<>>
    /\ actions = <<>>
    /\ stored_before = <<<<>>, <<>>, <<>>>>

VARIABLES
    exec_step,              \* the action dict handed to execute_action
    exec_element,           \* what the element named by the target offers
    screen,                 \* what the screenshots around a click show
    exec_result,            \* what execute_action returned
    element_presses,        \* presses and clicks made on the element
    key_events              \* key codes sent through System Events

ExecVars == <<exec_step, exec_element, screen, exec_result, element_presses,
              key_events>>

NotExecuted == [called |-> FALSE, success |-> FALSE]
\* _find_element found nothing for the target
NoWidget ==
    [present |-> FALSE, AXNamed |-> FALSE, AXPress |-> FALSE,
     AXPerformAction |-> FALSE, AXPosition |-> FALSE, AXSetFocused |-> FALSE]

ExecIdle ==
    /\ exec_step = [action |-> "", target |-> ""]
    /\ exec_element = NoWidget
    /\ screen = "none"
    /\ exec_result = NotExecuted
    /\ element_presses = 0
    /\ key_events = 0

Elsewhere == <<ScenarioVars, CorrelateVars, DiscoverVars, ThrottleVars,
               LookupVars, MemoryVars, ExecVars>>
ElsewhereIdle ==
    /\ ScenarioIdle /\ CorrelateIdle /\ DiscoverIdle /\ ThrottleIdle
    /\ LookupIdle /\ MemoryIdle /\ ExecIdle

\* --------------------------------------------------------------- inputs
Confidences == {5, 10, 25, 95}
\* a step the executor reports done or failed, a step whose action name is not
\* a string (execute_action raises) and a step without an action name
StepKinds == {"ok", "fail", "raise", "malformed"}
GoalFamilies == {"general"}
LongRangePlans == {"indicators", "malformed"}
IterArgs == {None, 0, 1, MaxIterArg}

\* Plans of the oracle: the first step is of any kind, the rest succeed
Plans ==
    {<<>>} \cup
    UNION {{[i \in 1..n |-> IF i = 1 THEN k ELSE "ok"] : k \in StepKinds} :
           n \in 1..MaxPlanLen}

NoResult ==
    [success |-> FALSE, iterations |-> 0, errors |-> 0,
     progress |-> <<0, 1>>, message |-> ""]

\* results of AgentCore.perceive for one snapshot
Perceptions(snap) ==
    {[error |-> TRUE, indicator |-> FALSE, snap |-> snap]} \cup
    {[error |-> FALSE, indicator |-> b, snap |-> snap] : b \in BOOLEAN}

\* results of AgentCore.reason_with_visual: an error, the parser's fallback
\* (no error key, empty plan, confidence 0.0) or a parsed Plan
Reasonings(from) ==
    {[error |-> TRUE, plan |-> <<>>, confidence |-> 0, from |-> from],
     [error |-> FALSE, plan |-> <<>>, confidence |-> 0, from |-> from]} \cup
    {[error |-> FALSE, plan |-> p, confidence |-> c, from |-> from] :
        p \in Plans, c \in Confidences}

\* ------------------------------------------------------------ AgentCore.act
RECURSIVE ActLoop(_, _, _, _, _)
\* the for loop of act from step i on: a step without an action name ends in
\* the outer handler; otherwise one execute_action, then either the inner
\* exception handler, the partial return or the next step
ActLoop(plan, i, results, ec, prog) ==
    IF i > Len(plan)
    THEN [action_result |->
              [success |-> \E j \in 1..Len(results) : results[j] = "ok",
               partial |-> FALSE, results |-> results],
          error_count |-> ec, progress |-> prog,
          stored |-> results]
    ELSE IF plan[i] = "malformed"
    THEN [action_result |-> NoAction, error_count |-> ec, progress |-> prog,
          stored |-> <<>>]
    ELSE IF plan[i] = "raise"
    THEN [action_result |->
              [success |-> FALSE, partial |-> FALSE,
               results |-> Append(results, "error")],
          error_count |-> ec + 1, progress |-> prog,
          stored |-> <<>>]
    ELSE IF i < Len(plan)
    THEN [action_result |->
              [success |-> TRUE, partial |-> TRUE,
               results |-> Append(results, plan[i])],
          error_count |-> ec, progress |-> <<i, Len(plan)>>,
          stored |-> <<>>]
    ELSE ActLoop(plan, i + 1, Append(results, plan[i]), ec, <<i, Len(plan)>>)

RECURSIVE ActLoopDrain(_, _, _, _, _)
\* the for loop without the return to the main loop after each step
ActLoopDrain(plan, i, results, ec, prog) ==
    IF i > Len(plan)
    THEN [action_result |->
              [success |-> \E j \in 1..Len(results) : results[j] = "ok",
               partial |-> FALSE, results |-> results],
          error_count |-> ec, progress |-> prog,
          stored |-> results]
    ELSE IF plan[i] = "malformed"
    THEN [action_result |-> NoAction, error_count |-> ec, progress |-> prog,
          stored |-> <<>>]
    ELSE IF plan[i] = "raise"
    THEN [action_result |->
              [success |-> FALSE, partial |-> FALSE,
               results |-> Append(results, "error")],
          error_count |-> ec + 1, progress |-> prog,
          stored |-> <<>>]
    ELSE ActLoopDrain(plan, i + 1, Append(results, plan[i]), ec, <<i, Len(plan)>>)

act_drains_plan(plan, ec, prog) ==
    IF plan = <<>>
    THEN [action_result |-> NoAction, error_count |-> ec, progress |-> prog,
          stored |-> <<>>]
    ELSE ActLoopDrain(plan, 1, <<>>, ec, prog)

\* act that goes on with the step after the first of a plan of several steps
act_continues_plan(plan, ec, prog) ==
    IF plan = <<>>
    THEN [action_result |-> NoAction, error_count |-> ec, progress |-> prog,
          stored |-> <<>>]
    ELSE ActLoop(plan, IF Len(plan) > 1 THEN 2 ELSE 1, <<>>, ec, prog)

\* act that reports an empty plan as done
act_empty_succeeds(plan, ec, prog) ==
    IF plan = <<>>
    THEN [action_result |->
              [success |-> TRUE, partial |-> FALSE, results |-> <<>>],
          error_count |-> ec, progress |-> prog, stored |-> <<>>]
    ELSE ActLoop(plan, 1, <<>>, ec, prog)

\* AgentCore.act: the action result, state.error_count and state.progress as
\* act leaves them, and the results it hands to memory.store_actions
act(plan, ec, prog) ==
    IF plan = <<>>
    THEN [action_result |-> NoAction, error_count |-> ec, progress |-> prog,
          stored |-> <<>>]
    ELSE ActLoop(plan, 1, <<>>, ec, prog)

\* ------------------------------------------------- run_autonomous_loop parts
\* max_iter = max_iterations or self.max_iterations (0 and None are falsy)
MaxIter(arg, dflt) == IF arg = None \/ arg = 0 THEN dflt ELSE arg

LoopCondNoErrorBudget(it, mi, ec, me) == it < mi

\* while iterations < max_iter and self.state.error_count < self.max_errors
LoopCond(it, mi, ec, me) == it < mi /\ ec < me

ErrorNotCounted(ec) == ec

\* self.state.error_count += 1 of a failed PERCEIVE, REASON or ACT
CountError(ec) == ec + 1

PerceptionErrorIgnored(pd) == FALSE

\* "error" in perception_data
PerceptionFailed(pd) == pd.error

ConfidenceGateInclusive(confidence) ==
    IF confidence <= AbortConfidence THEN "abort"
    ELSE IF confidence < LowConfidence THEN "low" ELSE "continue"

\* the confidence check after a goal check that did not succeed
ConfidenceGate(confidence) ==
    IF confidence < AbortConfidence THEN "abort"
    ELSE IF confidence < LowConfidence THEN "low" ELSE "continue"

\* AgentCore._is_goal_achieved on the keyword family of the goal: "raise" when
\* a completion indicator of the long-range plan is not a string
IsGoalAchieved(g, lrp, pd, rr) ==
    IF lrp = "malformed" THEN "raise"
    ELSE IF lrp = "indicators" /\ pd.indicator THEN "yes"
    ELSE IF g = "terminal" THEN (IF rr.confidence > 80 THEN "yes" ELSE "no")
    ELSE IF g = "search" THEN (IF rr.confidence > 70 THEN "yes" ELSE "no")
    ELSE IF g = "calculator" THEN (IF rr.confidence > 80 THEN "yes" ELSE "no")
    ELSE IF rr.confidence > 90 THEN "yes" ELSE "no"

\* the dictionary a return statement builds
Result(s, it, ec, prog, msg) ==
    [success |-> s, iterations |-> it, errors |-> ec, progress |-> prog,
     message |-> msg]

\* ------------------------------------------------------------------ state
AgentInit ==
    /\ pc = "constructed"
    /\ max_errors = DefaultMaxErrors
    /\ self_max_iterations = DefaultMaxIterations
    /\ max_iterations = None
    /\ max_iter = 0
    /\ iterations = 0
    /\ error_count = 0
    /\ progress = <<0, 1>>
    /\ goal = "none"
    /\ long_range_plan = "none"
    /\ perception_data = NoPerception
    /\ reasoning_result = NoReasoning
    /\ action_result = NoAction
    /\ post_action_perception = NoPerception
    /\ ret = "pending"
    /\ result = NoResult
    /\ event = "constructed"
    /\ termination = "none"
    /\ fails_since_reset = 0
    /\ act_fail_streak = 0
    /\ plan_created = "none"

\* a fresh AgentCore; the components not driven by the loop are at rest
Init == AgentInit /\ ElsewhereIdle

History == <<fails_since_reset, act_fail_streak, plan_created>>
Locals == <<perception_data, reasoning_result, action_result, post_action_perception>>
Config == <<max_errors, self_max_iterations, max_iterations, max_iter, goal>>
Outcome == <<ret, result, termination>>

\* a return statement of run_autonomous_loop
Return(cause, dict) ==
    /\ pc' = "done"
    /\ ret' = "dict"
    /\ result' = dict
    /\ termination' = cause

\* the caller sets the budgets (agent.max_iterations, agent.max_errors)
Configure ==
    /\ pc = "constructed"
    /\ event = "constructed"
    /\ \E mi \in {MaxIterArg}, me \in {1, MaxErrorsCfg} :
          /\ self_max_iterations' = mi
          /\ max_errors' = me
    /\ event' = "configured"
    /\ UNCHANGED <<pc, max_iterations, max_iter, iterations, error_count,
                   progress, goal, long_range_plan, Locals, Outcome,
                   History>>
    /\ UNCHANGED Elsewhere

\* the call run_autonomous_loop(goal, target_app, max_iterations)
Start ==
    /\ pc = "constructed"
    /\ \E g \in GoalFamilies, arg \in IterArgs :
          /\ goal' = g
          /\ max_iterations' = arg
    /\ pc' = "focus"
    /\ event' = "called"
    /\ UNCHANGED <<max_errors, self_max_iterations, max_iter, iterations,
                   error_count, progress, long_range_plan, Locals, Outcome,
                   History>>
    /\ UNCHANGED Elsewhere

\* _choose_target_app and _focus_target_app (failure to focus is not fatal),
\* then iterations = 0 and max_iter
Focus ==
    /\ pc = "focus"
    /\ \E focus_result \in BOOLEAN :
          event' = IF focus_result THEN "focused" ELSE "focus_failed"
    /\ iterations' = 0
    /\ max_iter' = MaxIter(max_iterations, self_max_iterations)
    /\ pc' = "init_perceive"
    /\ UNCHANGED <<max_errors, self_max_iterations, max_iterations,
                   error_count, progress, goal, long_range_plan, Locals,
                   Outcome, History>>
    /\ UNCHANGED Elsewhere

\* initial_perception = self.perceive(...), returning early on an error
InitialPerceive ==
    /\ pc = "init_perceive"
    /\ \E pd \in Perceptions("initial") :
          /\ perception_data' = pd
          /\ IF PerceptionFailed(pd)
             THEN /\ Return("initial_perception",
                            Result(FALSE, 0, 1, <<0, 1>>, MsgInitialPerceptionFailed))
                  /\ event' = "initial_perception_error"
             ELSE /\ pc' = "long_plan"
                  /\ event' = "initial_perception_ok"
                  /\ UNCHANGED Outcome
    /\ UNCHANGED <<Config, iterations, error_count, progress, long_range_plan,
                   reasoning_result, action_result, post_action_perception,
                   History>>
    /\ UNCHANGED Elsewhere

\* self.reasoning.create_long_range_plan(...): the plan is stored only when the
\* oracle answered with parsable JSON
LongPlan ==
    /\ pc = "long_plan"
    /\ \/ /\ UNCHANGED long_range_plan
          /\ plan_created' = "none"
          /\ event' = "long_plan_error"
       \/ /\ \E lrp \in LongRangePlans :
                /\ long_range_plan' = lrp
                /\ plan_created' = lrp
          /\ event' = "long_plan_ok"
    /\ pc' = "loop"
    /\ UNCHANGED <<Config, iterations, error_count, progress, Locals, Outcome,
                   fails_since_reset, act_fail_streak>>
    /\ UNCHANGED Elsewhere

\* the while test: one more iteration, or the fall-through to the final return
LoopCheck ==
    /\ pc = "loop"
    /\ IF LoopCond(iterations, max_iter, error_count, max_errors)
       THEN /\ iterations < IterCap
            /\ iterations' = iterations + 1
            /\ pc' = "perceive"
            /\ event' = "iteration_started"
            /\ perception_data' = NoPerception
            /\ reasoning_result' = NoReasoning
            /\ action_result' = NoAction
            /\ post_action_perception' = NoPerception
            /\ UNCHANGED Outcome
       ELSE /\ Return(IF iterations < max_iter THEN "error_budget"
                                               ELSE "iteration_budget",
                      Result(FALSE, iterations, error_count, progress,
                             MsgMaxIterations))
            /\ event' = "loop_exit"
            /\ UNCHANGED <<iterations, Locals>>
    /\ UNCHANGED <<Config, error_count, progress, long_range_plan,
                   History>>
    /\ UNCHANGED Elsewhere

\* 1. PERCEIVE
Perceive ==
    /\ pc = "perceive"
    /\ \E pd \in Perceptions("pre") :
          /\ perception_data' = pd
          /\ IF PerceptionFailed(pd)
             THEN /\ error_count' = CountError(error_count)
                  /\ fails_since_reset' = fails_since_reset + 1
                  /\ act_fail_streak' = 0
                  /\ UNCHANGED plan_created
                  /\ pc' = "loop"
                  /\ event' = "perceive_error"
             ELSE /\ pc' = "reason"
                  /\ event' = "perceive_ok"
                  /\ UNCHANGED <<error_count, History>>
    /\ UNCHANGED <<Config, iterations, progress, long_range_plan,
                   reasoning_result, action_result, post_action_perception,
                   Outcome>>
    /\ UNCHANGED Elsewhere

\* 2. REASON (reason_with_visual)
Reason ==
    /\ pc = "reason"
    /\ \E rr \in Reasonings("reason") :
          /\ reasoning_result' = rr
          /\ IF rr.error
             THEN /\ error_count' = CountError(error_count)
                  /\ fails_since_reset' = fails_since_reset + 1
                  /\ act_fail_streak' = 0
                  /\ UNCHANGED plan_created
                  /\ pc' = "loop"
                  /\ event' = "reason_error"
             ELSE /\ pc' = "act"
                  /\ event' = "reason_ok"
                  /\ UNCHANGED <<error_count, History>>
    /\ UNCHANGED <<Config, iterations, progress, long_range_plan,
                   perception_data, action_result, post_action_perception,
                   Outcome>>
    /\ UNCHANGED Elsewhere

\* 3. ACT: self.act(reasoning_result), then the error count or its reset
Act ==
    /\ pc = "act"
    /\ LET a == act(reasoning_result.plan, error_count, progress) IN
          /\ action_result' = a.action_result
          /\ progress' = a.progress
          /\ IF ~a.action_result.success
             THEN /\ error_count' = CountError(a.error_count)
                  /\ fails_since_reset' = fails_since_reset + 1
                  /\ act_fail_streak' = act_fail_streak + 1
                  /\ pc' = "loop"
                  /\ event' = "act_failed"
             ELSE /\ error_count' = 0
                  /\ fails_since_reset' = 0
                  /\ act_fail_streak' = 0
                  /\ pc' = "observe"
                  /\ event' = "act_ok"
    /\ UNCHANGED <<Config, iterations, long_range_plan, perception_data,
                   reasoning_result, post_action_perception, Outcome,
                   plan_created>>
    /\ UNCHANGED Elsewhere

\* 4. OBSERVE: the post-action perception
Observe ==
    /\ pc = "observe"
    /\ \E pap \in Perceptions("post") :
          /\ post_action_perception' = pap
          /\ IF pap.error
             THEN /\ pc' = "check_goal"
                  /\ event' = "observe_error"
             ELSE /\ pc' = "re_reason"
                  /\ event' = "observe_ok"
    /\ UNCHANGED <<Config, iterations, error_count, progress, long_range_plan,
                   perception_data, reasoning_result, action_result, Outcome,
                   History>>
    /\ UNCHANGED Elsewhere

\* 4. OBSERVE: the reasoning on the updated state, adopted unless it failed
ReReason ==
    /\ pc = "re_reason"
    /\ \E updated_reasoning \in Reasonings("re_reason") :
          IF updated_reasoning.error
          THEN /\ event' = "re_reason_error"
               /\ UNCHANGED <<perception_data, reasoning_result>>
          ELSE /\ event' = "re_reason_ok"
               /\ perception_data' = post_action_perception
               /\ reasoning_result' = updated_reasoning
    /\ pc' = "check_goal"
    /\ UNCHANGED <<Config, iterations, error_count, progress, long_range_plan,
                   action_result, post_action_perception, Outcome,
                   History>>
    /\ UNCHANGED Elsewhere

\* 5. CHECK_GOAL: the goal check, the confidence check, and the handler of an
\* exception raised by the goal check
CheckGoal ==
    /\ pc = "check_goal"
    /\ LET goal_achieved ==
               IsGoalAchieved(goal, long_range_plan, perception_data,
                              reasoning_result)
       IN
          CASE goal_achieved = "raise" ->
                  /\ error_count' = error_count + 1
                  /\ Return("exception",
                            Result(FALSE, iterations, error_count + 1, progress,
                                   MsgUnexpectedError))
                  /\ event' = "goal_check_raised"
            [] goal_achieved = "yes" ->
                  /\ Return("goal",
                            Result(TRUE, iterations, error_count, <<1, 1>>,
                                   MsgGoalAchieved))
                  /\ event' = "goal_achieved"
                  /\ UNCHANGED error_count
            [] goal_achieved = "no" ->
                  /\ IF ConfidenceGate(reasoning_result.confidence) = "abort"
                     THEN /\ pc' = "done"
                          /\ ret' = "None"
                          /\ termination' = "low_confidence"
                          /\ event' = "very_low_confidence"
                          /\ UNCHANGED result
                     ELSE /\ pc' = "sleep"
                          /\ event' = ConfidenceGate(reasoning_result.confidence)
                          /\ UNCHANGED Outcome
                  /\ UNCHANGED error_count
    /\ UNCHANGED <<Config, iterations, progress, long_range_plan, Locals,
                   History>>
    /\ UNCHANGED Elsewhere

\* the pause between two iterations
Sleep ==
    /\ pc = "sleep"
    /\ pc' = "loop"
    /\ event' = "slept"
    /\ UNCHANGED <<Config, iterations, error_count, progress, long_range_plan,
                   Locals, Outcome, History>>
    /\ UNCHANGED Elsewhere

\* --------------------------------------------------------- KeyboardInterrupt
\* the calls made before the try statement
BeforeTry == {"focus", "init_perceive", "long_plan"}
\* the calls and the sleep made inside the try statement
InsideTry == {"perceive", "reason", "act", "observe", "re_reason", "sleep"}
\* calls that run a bare except: around a blocking call
BareExcept == {"focus", "init_perceive", "perceive", "observe"}

\* an interrupt before the try statement leaves the call as an exception
InterruptPropagates ==
    /\ pc \in BeforeTry
    /\ pc' = "done"
    /\ ret' = "KeyboardInterrupt"
    /\ termination' = "interrupt"
    /\ event' = "interrupt"
    /\ UNCHANGED <<result, Config, iterations, error_count, progress,
                   long_range_plan, Locals, History>>
    /\ UNCHANGED Elsewhere

\* an interrupt inside a bare except: is dropped and the call goes on
InterruptSwallowed ==
    /\ pc \in BareExcept
    /\ event' = "interrupt"
    /\ UNCHANGED <<pc, Config, iterations, error_count, progress,
                   long_range_plan, Locals, Outcome, History>>
    /\ UNCHANGED Elsewhere

\* except KeyboardInterrupt of the loop; in act the interrupt arrives before
\* the step ran or in the pause after it
InterruptCaught ==
    /\ pc \in InsideTry
    /\ \E p \in {progress} \cup
                (IF pc = "act" /\ reasoning_result.plan # <<>>
                     /\ reasoning_result.plan[1] \in {"ok", "fail"}
                 THEN {<<1, Len(reasoning_result.plan)>>} ELSE {}) :
          /\ progress' = p
          /\ Return("cancel",
                    Result(FALSE, iterations, error_count, p, MsgStoppedByUser))
    /\ event' = "interrupt"
    /\ UNCHANGED <<Config, iterations, error_count, long_range_plan, Locals,
                   History>>
    /\ UNCHANGED Elsewhere

Next ==
    \/ Configure
    \/ Start
    \/ Focus
    \/ InitialPerceive
    \/ LongPlan
    \/ LoopCheck
    \/ Perceive
    \/ Reason
    \/ Act
    \/ Observe
    \/ ReReason
    \/ CheckGoal
    \/ Sleep
    \/ InterruptPropagates
    \/ InterruptSwallowed
    \/ InterruptCaught

vars == <<AgentVars, Elsewhere>>

Spec == Init /\ [][Next]_vars

\* ----------------------------------------------------------------- claims
ResultKeys == {"success", "iterations", "errors", "progress", "message"}
FiveCauses == {"goal", "low_confidence", "error_budget", "iteration_budget",
               "cancel"}

\* the messages the return site of a termination cause builds
MessagesOf(cause) ==
    CASE cause = "goal" -> {MsgGoalAchieved}
      [] cause = "low_confidence" -> {}
      [] cause = "error_budget" -> {MsgMaxIterations}
      [] cause = "iteration_budget" -> {MsgMaxIterations}
      [] cause = "cancel" -> {MsgStoppedByUser}
      [] cause = "initial_perception" -> {MsgInitialPerceptionFailed}
      [] cause = "exception" -> {MsgUnexpectedError}
      [] OTHER -> {}

\* C1: every return of run_autonomous_loop hands the caller a dictionary with
\* success, iterations, errors, progress and message; it never returns None.
C1_StructuredResult ==
    (pc = "done" /\ termination # "interrupt") =>
        (ret = "dict" /\ DOMAIN result = ResultKeys)

\* C2: maxErrors consecutive iterations whose ACT fails end the run with
\* success = false, and no iteration is in progress once error_count has
\* reached max_errors.
C2_ErrorBudget ==
    /\ act_fail_streak >= max_errors =>
          /\ pc \in {"loop", "done"}
          /\ pc = "done" => (ret = "dict" /\ ~result.success)
    /\ error_count >= max_errors => pc \in {"loop", "done"}

C2_Witness ==
    /\ pc = "done"
    /\ termination = "error_budget"
    /\ max_errors >= 3
    /\ act_fail_streak = max_errors
    /\ iterations = max_errors
    /\ ~result.success

\* C3: a successful ACT sets error_count to 0, so with a budget of three or
\* more, up to two failed iterations after the reset do not exhaust the budget.
C3_ResetAllowsTwoFailures ==
    /\ event = "act_ok" => error_count = 0
    /\ (max_errors >= 3 /\ fails_since_reset <= 2) => error_count < max_errors

\* C4: a goal check that fails with confidence below 0.1 ends the run at once,
\* with no further iteration; with confidence of 0.1 or more the run goes on
\* to the pause and the next loop test.
C4_ConfidenceGating ==
    [][(pc = "check_goal"
        /\ IsGoalAchieved(goal, long_range_plan, perception_data,
                          reasoning_result) = "no")
       => IF reasoning_result.confidence < AbortConfidence
          THEN /\ pc' = "done"
               /\ termination' = "low_confidence"
               /\ iterations' = iterations
          ELSE /\ pc' = "sleep"
               /\ ret' = "pending"]_vars

C4_Witness ==
    /\ pc = "done"
    /\ termination = "low_confidence"
    /\ reasoning_result.confidence < AbortConfidence
    /\ action_result.success

\* C5: each of the five termination causes reports a message that none of the
\* other four causes reports.
C5_DistinctMessages ==
    (pc = "done" /\ termination \in FiveCauses) =>
        /\ ret = "dict"
        /\ \A c \in FiveCauses \ {termination} :
              result.message \notin MessagesOf(c)

\* C6: the loop never starts more iterations than the max_iterations the
\* caller passed.
C6_IterationBound ==
    max_iterations # None => iterations <= max_iterations

\* C7: one call of act executes at most one step of the Plan, and a step that
\* raised is the last one attempted.
C7_OneStepPerAct ==
    /\ Len(action_result.results) <= 1
    /\ \A j \in 1..Len(action_result.results) :
          action_result.results[j] = "error" => j = Len(action_result.results)
    /\ action_result.partial => action_result.success

C7_Witness ==
    /\ pc = "observe"
    /\ Len(reasoning_result.plan) > 1
    /\ action_result.partial
    /\ Len(action_result.results) = 1

C9_InterruptReturnsStopped ==
    event = "interrupt" =>
        /\ pc = "done"
        /\ ret = "dict"
        /\ result = Result(FALSE, iterations, error_count, progress,
                           MsgStoppedByUser)

\* C10: a failed PERCEIVE or REASON adds one to error_count and returns to the
\* loop test without ending the run, and the loop test starts the next
\* iteration unless max_errors or max_iterations is exhausted.
C10_FailuresAbsorbed ==
    [][/\ ((pc = "perceive" /\ perception_data'.error)
           \/ (pc = "reason" /\ reasoning_result'.error))
          => /\ error_count' = error_count + 1
             /\ pc' = "loop"
             /\ ret' = "pending"
             /\ iterations' = iterations
       /\ (pc = "loop" /\ iterations < max_iter /\ error_count < max_errors)
          => /\ pc' = "perceive"
             /\ ret' = "pending"
             /\ iterations' = iterations + 1]_vars

C10_Witness ==
    /\ pc = "perceive"
    /\ iterations >= 2
    /\ fails_since_reset = iterations - 1
    /\ act_fail_streak = 0
    /\ error_count = iterations - 1

\* ====================================================== Python str methods
UpperCase == "ABCDEFGHIJKLMNOPQRSTUVWXYZ"
LowerCase == "abcdefghijklmnopqrstuvwxyz"
Whitespace == {" ", "\t", "\n"}

\* a in b
Contains(a, b) ==
    \/ a = ""
    \/ \E i \in 1..(Len(b) - Len(a) + 1) : SubSeq(b, i, i + Len(a) - 1) = a

\* b.find(a) + 1 for an a that occurs in b
FirstIndex(a, b) ==
    CHOOSE i \in 1..(Len(b) - Len(a) + 1) :
        /\ SubSeq(b, i, i + Len(a) - 1) = a
        /\ \A j \in 1..(i - 1) : SubSeq(b, j, j + Len(a) - 1) # a

LowerChar(c) ==
    IF \E i \in 1..26 : SubSeq(UpperCase, i, i) = c
    THEN LET i == CHOOSE i \in 1..26 : SubSeq(UpperCase, i, i) = c
         IN SubSeq(LowerCase, i, i)
    ELSE c

RECURSIVE lower(_)
\* s.lower()
lower(s) ==
    IF s = "" THEN ""
    ELSE LowerChar(SubSeq(s, 1, 1)) \o lower(SubSeq(s, 2, Len(s)))

RECURSIVE lstrip(_, _)
lstrip(s, chars) ==
    IF s # "" /\ SubSeq(s, 1, 1) \in chars
    THEN lstrip(SubSeq(s, 2, Len(s)), chars) ELSE s

RECURSIVE rstrip(_, _)
rstrip(s, chars) ==
    IF s # "" /\ SubSeq(s, Len(s), Len(s)) \in chars
    THEN rstrip(SubSeq(s, 1, Len(s) - 1), chars) ELSE s

\* s.strip() for chars = Whitespace, s.strip(chars) otherwise
strip(s, chars) == rstrip(lstrip(s, chars), chars)

RECURSIVE split(_, _)
\* s.split(sep)
split(s, sep) ==
    IF ~Contains(sep, s) THEN <<s>>
    ELSE LET k == FirstIndex(sep, s)
         IN <<SubSeq(s, 1, k - 1)>> \o split(SubSeq(s, k + Len(sep), Len(s)), sep)

RECURSIVE words(_)
\* s.split()
words(s) ==
    LET t == lstrip(s, Whitespace) IN
    IF t = "" THEN <<>>
    ELSE LET ends == {i \in 1..Len(t) : SubSeq(t, i, i) \in Whitespace}
             k == IF ends = {} THEN Len(t) + 1
                  ELSE CHOOSE i \in ends : \A j \in ends : i <= j
         IN <<SubSeq(t, 1, k - 1)>> \o words(SubSeq(t, k, Len(t)))

\* any(keyword in s for keyword in keywords)
AnyIn(keywords, s) == \E k \in keywords : Contains(k, s)

\* ================================ goal check and select step on one element
SystemAttrs ==
    {"network_status", "battery_level", "power_source", "memory_usage",
     "cpu_usage"}
OffValues == {"off", "disabled", "false"}
OnValuesWithoutOn == {"enabled", "true"}
OnValues == {"on", "enabled", "true"}
Punctuation == {"'", "\"", ".", ","}

\* str(getattr(system_state, attr)) of the SystemState the collector builds
SystemState(status) ==
    [network_status |-> status, battery_level |-> "80",
     power_source |-> "power", memory_usage |-> "41.5",
     cpu_usage |-> "12.0"]

\* the network_status branch: the target state after the last " to " of a
\* "change" indicator, matched by containment in either direction
NetworkStatusMatches(indicator_lower, current_state_str) ==
    IF Contains("changes", indicator_lower) \/ Contains("change", indicator_lower)
    THEN /\ Contains(" to ", indicator_lower)
         /\ LET parts == split(indicator_lower, " to ")
                target_state ==
                    strip(strip(parts[Len(parts)], Whitespace), Punctuation)
            IN \/ Contains(target_state, current_state_str)
               \/ Contains(current_state_str, target_state)
    ELSE Contains(current_state_str, indicator_lower)

\* the system-state check of one indicator
SystemStateMatches(indicator_lower, system_state) ==
    \E attr \in SystemAttrs :
        /\ Contains(attr, indicator_lower)
        /\ LET current_state_str == lower(system_state[attr]) IN
              IF attr = "network_status"
              THEN NetworkStatusMatches(indicator_lower, current_state_str)
              ELSE Contains(current_state_str, indicator_lower)

\* the UI element check of one indicator against one signal
SignalMatches(indicator_lower, signal) ==
    LET title == lower(signal.title)
        current_value == lower(signal.current_value)
        description == lower(signal.description)
        keywords == words(indicator_lower)
    IN /\ \/ Contains(indicator_lower, title)
          \/ Contains(indicator_lower, description)
          \/ \E k \in 1..Len(keywords) : Contains(keywords[k], title)
       /\ IF \/ Contains("toggle", indicator_lower)
             \/ Contains("switch", indicator_lower)
             \/ Contains("off", indicator_lower)
             \/ Contains("on", indicator_lower)
          THEN \/ Contains("off", indicator_lower) /\ current_value \in OffValues
               \/ Contains("on", indicator_lower) /\ current_value \in OnValues
          ELSE TRUE

\* the loop over the completion indicators of the long-range plan
IndicatorFound(indicators, system_state, signals) ==
    \E n \in 1..Len(indicators) :
        LET indicator_lower == lower(indicators[n]) IN
           \/ SystemStateMatches(indicator_lower, system_state)
           \/ \E k \in 1..Len(signals) :
                 SignalMatches(indicator_lower, signals[k])

\* the keyword rules applied when no indicator was found
Fallback(goal_string, signals, c) ==
    LET goal_lower == lower(goal_string) IN
    IF AnyIn({"echo", "command", "terminal", "iterm", "bash", "shell"}, goal_lower)
    THEN c > 80
    ELSE IF /\ Contains("battery", goal_lower)
            /\ Contains("optimize", goal_lower)
            /\ \E k \in 1..Len(signals) :
                  /\ Contains("low_power", lower(signals[k].id))
                  /\ lower(signals[k].current_value)
                         \in {"on", "always", "only on battery"}
    THEN TRUE
    ELSE IF AnyIn({"search", "find", "look for"}, goal_lower)
    THEN c > 70
    ELSE IF AnyIn({"calculate", "math", "calculator", "+", "-", "*", "/"},
                  goal_lower)
    THEN c > 80
    ELSE IF /\ AnyIn({"video", "show", "watch", "play"}, goal_lower)
            /\ \E k \in 1..Len(signals) :
                  AnyIn({"play", "pause", "full screen", "seek slider"},
                        lower(signals[k].title))
    THEN TRUE
    ELSE c > 90

\* AgentCore._is_goal_achieved on strings
is_goal_achieved(goal_string, indicators, system_state, signals, c) ==
    \/ IndicatorFound(indicators, system_state, signals)
    \/ Fallback(goal_string, signals, c)

\* ActionEngine._find_element on the one element on screen
find_element(target, el) ==
    el.present /\ (el.identifier = target \/ el.title = target)

\* ActionEngine._find_option: the first child whose title contains the option
find_option(el, option) ==
    LET hits == {i \in 1..Len(el.options) :
                    Contains(lower(option), lower(el.options[i]))}
    IN IF hits = {} THEN ""
       ELSE el.options[CHOOSE i \in hits : \A j \in hits : i <= j]

\* ActionEngine.execute_action for a select step
execute_select(step, el) ==
    IF ~find_element(step.target, el) THEN [success |-> FALSE, selected |-> ""]
    ELSE IF el.role # "AXPopUpButton" THEN [success |-> FALSE, selected |-> ""]
    ELSE IF find_option(el, step.option) = ""
    THEN [success |-> FALSE, selected |-> ""]
    ELSE [success |-> TRUE, selected |-> find_option(el, step.option)]

\* PerceptionEngine._create_ui_signal and _signal_to_dict for a titled element
signal_to_dict(el) ==
    [id |-> el.identifier, title |-> strip(el.title, Whitespace),
     description |-> strip(el.title, Whitespace), current_value |-> el.value]

\* ------------------------------------------------------ scenario inputs
ScenarioGoal == "turn on airplane-equivalent toggle"
ConnectGoal == "connect to the wifi network"
DirectionalIndicator == "network_status changes from disconnected to connected"
ModeOnIndicator == "Network Mode is On"
ModeOffIndicator == "Network Mode is Off"

GoalTexts == {ScenarioGoal, ConnectGoal}
ReasonedConfidences == {50, 95}
IndicatorLists ==
    {<<>>, <<DirectionalIndicator>>, <<ModeOnIndicator>>, <<ModeOffIndicator>>}
NetworkStatuses == {"connected", "disconnected", "unknown"}
PopupTargets == {"network_mode_popup", "missing_popup"}
AxElements ==
    {NoElement} \cup
    {[present |-> TRUE, identifier |-> "network_mode_popup",
      title |-> "Network Mode", role |-> r, options |-> o, value |-> v] :
        r \in {"AXPopUpButton", "AXButton"},
        o \in {<<"On", "Off">>, <<"Off", "On">>},
        v \in {"On", "Off"}}
SelectSteps ==
    {[action |-> "select", target |-> t, option |-> o] :
        t \in PopupTargets, o \in {"On", "Off"}}

ScenarioInit ==
    /\ AgentInit /\ CorrelateIdle /\ DiscoverIdle /\ ThrottleIdle
    /\ LookupIdle /\ MemoryIdle /\ ExecIdle
    /\ stage = "start"
    /\ goal_text \in GoalTexts
    /\ reasoned_confidence \in ReasonedConfidences
    /\ completion_indicators \in IndicatorLists
    /\ network_status \in NetworkStatuses
    /\ ax_element \in AxElements
    /\ plan_step \in SelectSteps
    /\ action_outcome = NoOutcome
    /\ ui_signals = <<>>
    /\ achieved = "unset"

OutsideScenario == <<AgentVars, CorrelateVars, DiscoverVars, ThrottleVars,
                     LookupVars, MemoryVars, ExecVars>>

\* act on the one-step Plan: the step runs through execute_action, and the
\* pressed option becomes the value of the popup
ScenarioAct ==
    /\ stage = "start"
    /\ LET r == execute_select(plan_step, ax_element)
           a == act(<<IF r.success THEN "ok" ELSE "fail">>, 0, <<0, 1>>)
       IN /\ action_outcome' =
                [ran |-> TRUE, success |-> a.action_result.success,
                 selected |-> r.selected]
          /\ ax_element' = IF r.success
                           THEN [ax_element EXCEPT !.value = r.selected]
                           ELSE ax_element
    /\ stage' = "acted"
    /\ UNCHANGED <<goal_text, reasoned_confidence, completion_indicators,
                   network_status, plan_step, ui_signals, achieved>>
    /\ UNCHANGED OutsideScenario

\* perceive: the snapshot of the element and of the system state
ScenarioPerceive ==
    /\ stage \in {"start", "acted"}
    /\ ui_signals' = IF ax_element.present THEN <<signal_to_dict(ax_element)>>
                     ELSE <<>>
    /\ stage' = "observed"
    /\ UNCHANGED <<goal_text, reasoned_confidence, completion_indicators,
                   network_status, ax_element, plan_step, action_outcome,
                   achieved>>
    /\ UNCHANGED OutsideScenario

\* self._is_goal_achieved(goal, perception_data, reasoning_result)
ScenarioCheckGoal ==
    /\ stage = "observed"
    /\ achieved' =
          IF is_goal_achieved(goal_text, completion_indicators,
                              SystemState(network_status), ui_signals,
                              reasoned_confidence)
          THEN "true" ELSE "false"
    /\ stage' = "checked"
    /\ UNCHANGED <<goal_text, reasoned_confidence, completion_indicators,
                   network_status, ax_element, plan_step, action_outcome,
                   ui_signals>>
    /\ UNCHANGED OutsideScenario

ScenarioNext == ScenarioAct \/ ScenarioPerceive \/ ScenarioCheckGoal

ScenarioSpec == ScenarioInit /\ [][ScenarioNext]_vars

\* C11: with the completion indicator "network_status changes from
\* disconnected to connected", no UI element and no keyword rule firing, the
\* goal check answers true for network_status "connected" and false for
\* network_status "disconnected".
C11_DirectionalIndicator ==
    (/\ stage = "checked"
     /\ completion_indicators = <<DirectionalIndicator>>
     /\ ui_signals = <<>>
     /\ ~Fallback(goal_text, ui_signals, reasoned_confidence))
    => /\ network_status = "connected" => achieved = "true"
       /\ network_status = "disconnected" => achieved = "false"

\* the scenario of C12: the popup "Network Mode" with the options On and Off,
\* a select step on it with the option On, and the indicator "Network Mode is
\* On"
C12_Scenario ==
    /\ goal_text = ScenarioGoal
    /\ completion_indicators = <<ModeOnIndicator>>
    /\ ax_element.present
    /\ ax_element.title = "Network Mode"
    /\ ax_element.role = "AXPopUpButton"
    /\ ax_element.options = <<"On", "Off">>
    /\ plan_step = [action |-> "select", target |-> ax_element.identifier,
                    option |-> "On"]

\* C12: in that scenario the iteration's act reports success = true, and the
\* goal check on the snapshot taken after it, whose element has the current
\* value "On", returns true.
C12_SelectScenario ==
    C12_Scenario =>
        /\ action_outcome.ran => action_outcome.success
        /\ (action_outcome.ran /\ stage \in {"observed", "checked"}) =>
              /\ Len(ui_signals) = 1
              /\ ui_signals[1].current_value = "On"
        /\ (stage = "checked" /\ Len(ui_signals) = 1
            /\ ui_signals[1].current_value = "On") => achieved = "true"

C12_Witness ==
    /\ C12_Scenario
    /\ stage = "checked"
    /\ action_outcome.ran /\ action_outcome.success
    /\ action_outcome.selected = "On"
    /\ reasoned_confidence = 50
    /\ ~Fallback(goal_text, ui_signals, reasoned_confidence)
    /\ achieved = "true"

\* C31: when the long-range plan supplies completion indicators and the
\* snapshot satisfies none of them, the goal check does not answer true.
C31_NoSuccessOnConfidenceAlone ==
    (/\ stage = "checked"
     /\ completion_indicators # <<>>
     /\ ~IndicatorFound(completion_indicators, SystemState(network_status),
                        ui_signals))
    => achieved = "false"

\* ------------------------------------- goal check on a media player window
MediaGoals ==
    {"play the video", "watch the show", "search for a video to watch",
     "open the settings"}
PlayerIndicator == "video is playing"
DarkModeIndicator == "Dark Mode is On"
PlayerIndicatorLists == {<<>>, <<PlayerIndicator>>, <<DarkModeIndicator>>}
PlayerElements ==
    {NoElement} \cup
    {[present |-> TRUE, identifier |-> "player_control", title |-> t,
      role |-> "AXButton", options |-> <<>>, value |-> v] :
        t \in {"Play", "Seek slider", "Video settings", "Subtitles",
               "Dark Mode"},
        v \in {"On", "Off"}}

GoalCheckInit ==
    /\ AgentInit /\ CorrelateIdle /\ DiscoverIdle /\ ThrottleIdle
    /\ LookupIdle /\ MemoryIdle /\ ExecIdle
    /\ stage = "start"
    /\ goal_text \in MediaGoals
    /\ reasoned_confidence \in ReasonedConfidences
    /\ completion_indicators \in PlayerIndicatorLists
    /\ network_status = "unknown"
    /\ ax_element \in PlayerElements
    /\ plan_step = [action |-> "select", target |-> "player_control",
                    option |-> "On"]
    /\ action_outcome = NoOutcome
    /\ ui_signals = <<>>
    /\ achieved = "unset"

GoalCheckNext == ScenarioAct \/ ScenarioPerceive \/ ScenarioCheckGoal

GoalCheckSpec == GoalCheckInit /\ [][GoalCheckNext]_vars

\* the keyword families tested before the media family
EarlierFamily(goal_lower) ==
    \/ AnyIn({"echo", "command", "terminal", "iterm", "bash", "shell"},
             goal_lower)
    \/ Contains("battery", goal_lower) /\ Contains("optimize", goal_lower)
    \/ AnyIn({"search", "find", "look for"}, goal_lower)
    \/ AnyIn({"calculate", "math", "calculator", "+", "-", "*", "/"},
             goal_lower)

MediaFamily(goal_lower) ==
    AnyIn({"video", "show", "watch", "play"}, goal_lower)

PlaybackControl(signal) ==
    AnyIn({"play", "pause", "full screen", "seek slider"},
          lower(signal.title))

\* C32: for a goal of the show/watch/play/video family and of no earlier
\* keyword family, the keyword rules answer true exactly when some UI
\* element's title names a playback control, whatever the confidence is.
C32_MediaGoalStructural ==
    (/\ stage = "checked"
     /\ completion_indicators = <<>>
     /\ MediaFamily(lower(goal_text))
     /\ ~EarlierFamily(lower(goal_text)))
    => (achieved = "true"
           <=> \E k \in 1..Len(ui_signals) : PlaybackControl(ui_signals[k]))

\* the condition of an indicator read against one text of an element: one
\* contains the other
TextMatches(indicator_lower, text) ==
    /\ text # ""
    /\ \/ Contains(indicator_lower, text)
       \/ Contains(text, indicator_lower)

ConditionMatched(indicator_lower, signal) ==
    \/ TextMatches(indicator_lower, lower(signal.title))
    \/ TextMatches(indicator_lower, lower(signal.description))
    \/ TextMatches(indicator_lower, lower(signal.current_value))

\* C33: when the goal check answers true through a UI element (no system
\* state match, no keyword rule), the indicator's condition is matched by
\* the title, description or value of some element; a title that shares only
\* one word with the indicator is not enough.
C33_IndicatorMatchedByElement ==
    (/\ stage = "checked"
     /\ Len(completion_indicators) = 1
     /\ ~SystemStateMatches(lower(completion_indicators[1]),
                            SystemState(network_status))
     /\ ~Fallback(goal_text, ui_signals, reasoned_confidence)
     /\ achieved = "true")
    => \E k \in 1..Len(ui_signals) :
          ConditionMatched(lower(completion_indicators[1]), ui_signals[k])

\* ================================================================ correlator
\* most elements one call is given on either side
MaxSignals == 2
\* calls of the correlator on the same arguments
MaxCorrelateCalls == 3

ProximityPixels == 50
GenericTexts == {"button", "turn off", "click"}

\* ui_signals entries: position in pixels
UiPalette ==
    {[id |-> "wifi_toggle", position |-> <<100, 100>>, title |-> "Wi-Fi",
      type |-> "AXButton", description |-> "Wi-Fi"],
     [id |-> "wifi_details", position |-> <<120, 110>>,
      title |-> "Wi-Fi Settings", type |-> "AXButton", description |-> ""],
     [id |-> "search_field", position |-> <<400, 80>>, title |-> "Search",
      type |-> "AXTextField", description |-> "Search Bar"]}

\* VisualElement entries; has_coordinates is the truth value of .coordinates
VisualPalette ==
    {[text |-> "Wi-Fi", type |-> "button", purpose |-> "toggle wi-fi",
      has_coordinates |-> TRUE, click_x |-> 105, click_y |-> 102],
     [text |-> "Wi-Fi", type |-> "button", purpose |-> "toggle wi-fi",
      has_coordinates |-> TRUE, click_x |-> 500, click_y |-> 500],
     [text |-> "Search", type |-> "text field", purpose |-> "search bar",
      has_coordinates |-> FALSE, click_x |-> 0, click_y |-> 0],
     [text |-> "button", type |-> "button", purpose |-> "",
      has_coordinates |-> TRUE, click_x |-> 400, click_y |-> 80]}

SeqsUpTo(S, n) == UNION {[1..k -> S] : k \in 0..n}

\* ui_title.strip().lower() and visual_element.text.strip().lower()
TitleClean(ui_signal) == lower(strip(lower(ui_signal.title), Whitespace))
TextClean(visual_element) == lower(strip(visual_element.text, Whitespace))

\* +3 for a click point within 50 pixels of the position
PositionScore(ui_signal, visual_element) ==
    LET dx == ui_signal.position[1] - visual_element.click_x
        dy == ui_signal.position[2] - visual_element.click_y
    IN IF /\ visual_element.has_coordinates
          /\ dx * dx + dy * dy < ProximityPixels * ProximityPixels
       THEN 3 ELSE 0

\* the texts are equal, or one of more than 3 characters is inside the other
TextsMatch(ui_signal, visual_element) ==
    LET ui_title_clean == TitleClean(ui_signal)
        vis_text_clean == TextClean(visual_element)
    IN \/ ui_title_clean = vis_text_clean
       \/ /\ Len(ui_title_clean) > 3
          /\ Contains(ui_title_clean, vis_text_clean)
       \/ /\ Len(vis_text_clean) > 3
          /\ Contains(vis_text_clean, ui_title_clean)

\* one of the two texts is a generic token
GenericText(ui_signal, visual_element) ==
    \/ TitleClean(ui_signal) \in GenericTexts
    \/ TextClean(visual_element) \in GenericTexts

\* the text part: +2 for a match, else -1 for a generic token, and nothing
\* when either text is empty
TextScore(ui_signal, visual_element) ==
    IF ui_signal.title # "" /\ visual_element.text # ""
    THEN IF TextsMatch(ui_signal, visual_element) THEN 2
         ELSE IF GenericText(ui_signal, visual_element) THEN -1 ELSE 0
    ELSE 0

\* +1 when one type name is inside the other
TypeScore(ui_signal, visual_element) ==
    IF \/ Contains(lower(ui_signal.type), lower(visual_element.type))
       \/ Contains(lower(visual_element.type), lower(ui_signal.type))
    THEN 1 ELSE 0

\* +1 when the description is inside the purpose
PurposeScore(ui_signal, visual_element) ==
    IF Contains(lower(ui_signal.description), lower(visual_element.purpose))
    THEN 1 ELSE 0

\* the score of one UI signal against one visual element
Score(ui_signal, visual_element) ==
    PositionScore(ui_signal, visual_element)
    + TextScore(ui_signal, visual_element)
    + TypeScore(ui_signal, visual_element)
    + PurposeScore(ui_signal, visual_element)

RECURSIVE BestMatchLast(_, _, _, _)
\* the inner loop with >= in place of >: the last of the best
BestMatchLast(ui_signal, visual, best_match, best_score) ==
    IF visual = <<>> THEN [found |-> best_score > 0, match |-> best_match,
                           score |-> best_score]
    ELSE IF Score(ui_signal, Head(visual)) >= best_score
    THEN BestMatchLast(ui_signal, Tail(visual), Head(visual),
                       Score(ui_signal, Head(visual)))
    ELSE BestMatchLast(ui_signal, Tail(visual), best_match, best_score)

RECURSIVE BestMatch(_, _, _, _)
\* the inner loop: the first visual element with the highest score above 0
BestMatch(ui_signal, visual, best_match, best_score) ==
    IF visual = <<>> THEN [found |-> best_score > 0, match |-> best_match,
                           score |-> best_score]
    ELSE IF Score(ui_signal, Head(visual)) > best_score
    THEN BestMatch(ui_signal, Tail(visual), Head(visual),
                   Score(ui_signal, Head(visual)))
    ELSE BestMatch(ui_signal, Tail(visual), best_match, best_score)

RECURSIVE BestMatches(_, _)
\* the outer loop: one correlation per UI signal that has a match
BestMatches(signals, visual) ==
    IF signals = <<>> THEN <<>>
    ELSE LET b == BestMatch(Head(signals), visual, Head(signals), 0) IN
         (IF b.found
          THEN <<[accessibility_id |-> Head(signals).id,
                  visual_element |-> b.match,
                  correlation_score |-> b.score,
                  ui_signal |-> Head(signals)]>>
          ELSE <<>>) \o BestMatches(Tail(signals), visual)

RECURSIVE InsertByScore(_, _)
InsertByScore(c, sorted) ==
    IF sorted = <<>> THEN <<c>>
    ELSE IF Head(sorted).correlation_score >= c.correlation_score
    THEN <<Head(sorted)>> \o InsertByScore(c, Tail(sorted))
    ELSE <<c>> \o sorted

RECURSIVE SortByScore(_)
\* correlations.sort(key=score, reverse=True): stable, highest first
SortByScore(cs) ==
    IF cs = <<>> THEN <<>>
    ELSE InsertByScore(cs[Len(cs)], SortByScore(SubSeq(cs, 1, Len(cs) - 1)))

\* f"{text}_{type}_{purpose}"
visual_key(v) == v.text \o "_" \o v.type \o "_" \o v.purpose

KeepAll(cs, used) == cs

RECURSIVE unique_correlations(_, _)
\* the loop that keeps the first correlation of every visual key
unique_correlations(cs, used) ==
    IF cs = <<>> THEN <<>>
    ELSE IF visual_key(Head(cs).visual_element) \in used
    THEN unique_correlations(Tail(cs), used)
    ELSE <<Head(cs)>> \o
         unique_correlations(Tail(cs),
                             used \cup {visual_key(Head(cs).visual_element)})

UsedVisualElementsKept == used_so_far

\* used_visual_elements = set(): a set local to the call
UsedVisualElements == {}

RECURSIVE AssignWithFallback(_, _, _)
\* a dedup pass that gives a UI signal whose match is taken its best match
\* among the visual elements still free
AssignWithFallback(cs, visual, used) ==
    IF cs = <<>> THEN <<>>
    ELSE LET c == Head(cs)
             free == SelectSeq(visual, LAMBDA v : visual_key(v) \notin used)
             b == BestMatch(c.ui_signal, free, c.ui_signal, 0)
         IN IF ~b.found THEN AssignWithFallback(Tail(cs), visual, used)
            ELSE <<[c EXCEPT !.visual_element = b.match,
                             !.correlation_score = b.score]>> \o
                 AssignWithFallback(Tail(cs), visual,
                                    used \cup {visual_key(b.match)})

correlate_with_fallback(signals, visual) ==
    AssignWithFallback(SortByScore(BestMatches(signals, visual)), visual,
                       UsedVisualElements)

\* PerceptionEngine.correlate_accessibility_visual: its "correlations"
correlate_accessibility_visual(signals, visual) ==
    unique_correlations(SortByScore(BestMatches(signals, visual)),
                        UsedVisualElements)

KeysOf(cs) == {visual_key(cs[i].visual_element) : i \in 1..Len(cs)}

\* arguments of the calls made in between
OtherArguments ==
    {[signals |-> sg, visual |-> vs] :
        sg \in SeqsUpTo(UiPalette, 1), vs \in SeqsUpTo(VisualPalette, 1)}

CorrelateInit ==
    /\ AgentInit /\ ScenarioIdle /\ DiscoverIdle /\ ThrottleIdle
    /\ LookupIdle /\ MemoryIdle /\ ExecIdle
    /\ signals_in \in SeqsUpTo(UiPalette, MaxSignals)
    /\ visual_in \in SeqsUpTo(VisualPalette, MaxSignals)
    /\ correlations = <<>>
    /\ first_correlations = <<>>
    /\ correlate_calls = 0
    /\ used_so_far = {}

OutsideCorrelate == <<AgentVars, ScenarioVars, DiscoverVars, ThrottleVars,
                      LookupVars, MemoryVars, ExecVars>>

\* a call on the arguments under observation
Correlate ==
    /\ correlate_calls < MaxCorrelateCalls
    /\ LET out == correlate_accessibility_visual(signals_in, visual_in) IN
          /\ correlations' = out
          /\ first_correlations' =
                IF correlate_calls = 0 THEN out ELSE first_correlations
          /\ used_so_far' = used_so_far \cup KeysOf(out)
    /\ correlate_calls' = correlate_calls + 1
    /\ UNCHANGED <<signals_in, visual_in>>
    /\ UNCHANGED OutsideCorrelate

\* a call on other arguments between two calls on the observed ones
CorrelateOther ==
    /\ correlate_calls \in 1..(MaxCorrelateCalls - 1)
    /\ \E other \in OtherArguments :
          used_so_far' =
              used_so_far \cup
              KeysOf(correlate_accessibility_visual(other.signals, other.visual))
    /\ UNCHANGED <<signals_in, visual_in, correlations, first_correlations,
                   correlate_calls>>
    /\ UNCHANGED OutsideCorrelate

CorrelateNext == Correlate \/ CorrelateOther

CorrelateSpec == CorrelateInit /\ [][CorrelateNext]_vars

IdentityKey(c) ==
    <<c.visual_element.text, c.visual_element.type, c.visual_element.purpose>>

\* C13: no two correlations of one output reference the same visual-element
\* identity key (text, kind, purpose).
C13_NoReuse ==
    \A i, j \in 1..Len(correlations) :
        i # j => IdentityKey(correlations[i]) # IdentityKey(correlations[j])

C13_Witness ==
    /\ correlate_calls >= 1
    /\ Len(BestMatches(signals_in, visual_in)) = 2
    /\ Len(correlations) = 1
    /\ correlations[1].accessibility_id = signals_in[1].id

GenericUiSignal ==
    [id |-> "ok_button", position |-> <<110, 105>>, title |-> "Button",
     type |-> "AXButton", description |-> ""]

WinnerPalette == UiPalette \cup {GenericUiSignal}

\* the correlator on arguments that include generic texts and equal scores
WinnerInit ==
    /\ AgentInit /\ ScenarioIdle /\ DiscoverIdle /\ ThrottleIdle
    /\ LookupIdle /\ MemoryIdle /\ ExecIdle
    /\ signals_in \in SeqsUpTo(WinnerPalette, MaxSignals)
    /\ visual_in \in SeqsUpTo(VisualPalette, MaxSignals)
    /\ correlations = <<>>
    /\ first_correlations = <<>>
    /\ correlate_calls = 0
    /\ used_so_far = {}

WinnerNext == Correlate

WinnerSpec == WinnerInit /\ [][WinnerNext]_vars

RECURSIVE ScoreRow(_, _)
\* the scores of one UI signal against the visual elements, in their order
ScoreRow(ui_signal, visual) ==
    IF visual = <<>> THEN <<>>
    ELSE <<Score(ui_signal, Head(visual))>> \o ScoreRow(ui_signal, Tail(visual))

RECURSIVE ScoreTable(_, _)
ScoreTable(signals, visual) ==
    IF signals = <<>> THEN <<>>
    ELSE <<ScoreRow(Head(signals), visual)>> \o ScoreTable(Tail(signals), visual)

\* the highest score of a row, 0 for an empty row
RowMax(row) ==
    IF row = <<>> THEN 0
    ELSE CHOOSE best \in {row[k] : k \in 1..Len(row)} :
            \A k \in 1..Len(row) : row[k] <= best

\* the first position of a row that has the highest score
FirstBest(row) ==
    CHOOSE k \in 1..Len(row) :
        /\ row[k] = RowMax(row)
        /\ \A j \in 1..(k - 1) : row[j] < RowMax(row)

\* the UI signals, by index, that have a match
Candidates(table) == {n \in 1..Len(table) : RowMax(table[n]) > 0}
KeyOfCandidate(table, n) == visual_key(visual_in[FirstBest(table[n])])

\* among the candidates of one key: the highest score, then the lowest index
WinnerOf(table, key) ==
    CHOOSE n \in Candidates(table) :
        /\ KeyOfCandidate(table, n) = key
        /\ \A m \in Candidates(table) :
              KeyOfCandidate(table, m) = key =>
                  \/ RowMax(table[m]) < RowMax(table[n])
                  \/ RowMax(table[m]) = RowMax(table[n]) /\ n <= m

\* C29: each UI element keeps its single best-scoring visual element, the one
\* seen first on equal scores; each UI element id is in at most one output
\* correlation; and among the UI elements whose best match has the same visual
\* key the output keeps the one of the highest score, on equal scores the one
\* discovered first.
C29_WinnerRule ==
    correlate_calls >= 1 =>
        LET table == ScoreTable(signals_in, visual_in) IN
        /\ \A i \in 1..Len(correlations) :
              \E n \in Candidates(table) :
                 /\ correlations[i].ui_signal = signals_in[n]
                 /\ correlations[i].correlation_score = RowMax(table[n])
                 /\ correlations[i].visual_element =
                       visual_in[FirstBest(table[n])]
        /\ \A i, j \in 1..Len(correlations) :
              i # j => correlations[i].accessibility_id #
                       correlations[j].accessibility_id
        /\ Len(correlations) =
              Cardinality({KeyOfCandidate(table, n) : n \in Candidates(table)})
        /\ \A n \in Candidates(table) :
              \E i \in 1..Len(correlations) :
                 /\ visual_key(correlations[i].visual_element) =
                       KeyOfCandidate(table, n)
                 /\ correlations[i].ui_signal =
                       signals_in[WinnerOf(table, KeyOfCandidate(table, n))]

\* a UI element with two visual elements of different keys at its best score,
\* and a later UI element that takes the key from it by its higher score
C29_Witness ==
    /\ correlate_calls >= 1
    /\ LET table == ScoreTable(signals_in, visual_in) IN
       /\ \E n \in Candidates(table), j, k \in 1..Len(visual_in) :
             /\ j < k
             /\ visual_key(visual_in[j]) # visual_key(visual_in[k])
             /\ table[n][j] = RowMax(table[n])
             /\ table[n][k] = RowMax(table[n])
       /\ \E n, m \in Candidates(table) :
             /\ n < m
             /\ KeyOfCandidate(table, n) = KeyOfCandidate(table, m)
             /\ RowMax(table[n]) < RowMax(table[m])
             /\ Len(correlations) = 1
             /\ correlations[1].ui_signal = signals_in[m]

\* C30: whenever the title of the UI element or the text of the visual
\* element is a generic token, the score of the pair includes a penalty of 1,
\* also when the two texts match.
C30_GenericPenalty ==
    \A i \in 1..Len(correlations) :
        LET ui_signal == correlations[i].ui_signal
            visual_element == correlations[i].visual_element
        IN GenericText(ui_signal, visual_element) =>
              correlations[i].correlation_score =
                  PositionScore(ui_signal, visual_element)
                  + (IF TextsMatch(ui_signal, visual_element) THEN 2 ELSE 0)
                  + TypeScore(ui_signal, visual_element)
                  + PurposeScore(ui_signal, visual_element)
                  - 1

\* a pair without any of the four signals; an empty description overlaps
\* nothing
NoSignal(ui_signal, visual_element) ==
    /\ PositionScore(ui_signal, visual_element) = 0
    /\ ~TextsMatch(ui_signal, visual_element)
    /\ TypeScore(ui_signal, visual_element) = 0
    /\ \/ ui_signal.description = ""
       \/ PurposeScore(ui_signal, visual_element) = 0

\* C35: a UI element that has none of the four signals with any visual
\* element (an empty description counting as no overlap) has no correlation
\* in the output.
C35_NoSignalNoCorrelation ==
    correlate_calls >= 1 =>
        \A n \in 1..Len(signals_in) :
            (\A k \in 1..Len(visual_in) :
                 NoSignal(signals_in[n], visual_in[k]))
            => \A i \in 1..Len(correlations) :
                  correlations[i].ui_signal # signals_in[n]

\* the identity keys of the best matches of the UI signals that have one
BestMatchKeys(table) ==
    {<<visual_in[FirstBest(table[n])].text, visual_in[FirstBest(table[n])].type,
       visual_in[FirstBest(table[n])].purpose>> : n \in Candidates(table)}

\* the UI signal at index n lost its best match to another UI signal and is
\* not in the output
Displaced(table, n) ==
    /\ n \in Candidates(table)
    /\ WinnerOf(table, KeyOfCandidate(table, n)) # n
    /\ signals_in[WinnerOf(table, KeyOfCandidate(table, n))] # signals_in[n]

\* C36: matched_elements, the length of the output, is the number of
\* distinct identity keys among the best matches of the UI signals, and a UI
\* signal whose best match went to a higher-ranked correlation is not in the
\* output, whatever it scored against other visual elements.
C36_NoFallback ==
    correlate_calls >= 1 =>
        LET table == ScoreTable(signals_in, visual_in) IN
        /\ Len(correlations) = Cardinality(BestMatchKeys(table))
        /\ \A n \in 1..Len(signals_in) :
              Displaced(table, n) =>
                  \A i \in 1..Len(correlations) :
                      correlations[i].ui_signal # signals_in[n]

\* a displaced UI signal that scored above 0 against a visual element whose
\* key no output correlation uses
C36_Witness ==
    /\ correlate_calls >= 1
    /\ LET table == ScoreTable(signals_in, visual_in) IN
       \E n \in 1..Len(signals_in), k \in 1..Len(visual_in) :
          /\ Displaced(table, n)
          /\ table[n][k] > 0
          /\ \A i \in 1..Len(correlations) :
                /\ visual_key(correlations[i].visual_element) #
                      visual_key(visual_in[k])
                /\ correlations[i].ui_signal # signals_in[n]

\* ========================================================= element collector
\* most elements in the window that is scanned
MaxTree == 3
\* calls of discover_ui_signals on one PerceptionEngine
MaxDiscoverCalls == 3

InteractiveRoles ==
    <<"AXButton", "AXPopUpButton", "AXCheckBox", "AXRadioButton",
      "AXTextField", "AXSlider", "AXMenuItem", "AXTabGroup", "AXComboBox",
      "AXList", "AXTable", "AXScrollArea">>

\* accessibility elements: AXIdentifier (or none), AXRole, AXPosition
TreePalette ==
    {[identifier |-> "login", role |-> "AXButton", x |-> "40.0", y |-> "60.0"],
     [identifier |-> "", role |-> "AXButton", x |-> "40.0", y |-> "60.0"],
     [identifier |-> "", role |-> "AXTextField", x |-> "40.0", y |-> "90.0"],
     [identifier |-> "login", role |-> "AXPopUpButton", x |-> "80.0",
      y |-> "60.0"]}

\* the two collectors: src/py_files/perception.py and src/perception.py
Collectors == {"py_files", "src"}

\* id=identifier or f"{role}_{pos_tuple[0]}_{pos_tuple[1]}"
signal_id(el) ==
    IF el.identifier # "" THEN el.identifier
    ELSE el.role \o "_" \o el.x \o "_" \o el.y

RECURSIVE ScanRole(_, _, _)
\* the inner loop of _scan_window over the elements found for one role
ScanRole(found_elements, found, seen) ==
    IF found_elements = <<>> THEN [elements |-> found, seen |-> seen]
    ELSE IF signal_id(Head(found_elements)) \notin seen
    THEN ScanRole(Tail(found_elements),
                  Append(found, signal_id(Head(found_elements))),
                  seen \cup {signal_id(Head(found_elements))})
    ELSE ScanRole(Tail(found_elements), found, seen)

\* window.findAllR(AXRole=role)
findAllR(tree, role) == SelectSeq(tree, LAMBDA el : el.role = role)

RECURSIVE scan_window(_, _, _, _)
\* PerceptionEngine._scan_window from the r-th interactive role on
scan_window(tree, r, found, seen) ==
    IF r > Len(InteractiveRoles) THEN [elements |-> found, seen |-> seen]
    ELSE LET s == ScanRole(findAllR(tree, InteractiveRoles[r]), found, seen)
         IN scan_window(tree, r + 1, s.elements, s.seen)

\* what the call starts from: py_files clears self.seen_elements first, the
\* collector of src/perception.py does not
SeenAtStart(which, seen) == IF which = "py_files" THEN {} ELSE seen

\* PerceptionEngine.discover_ui_signals on a running application
discover_ui_signals(which, tree, seen) ==
    scan_window(tree, 1, <<>>, SeenAtStart(which, seen))

DiscoverInit ==
    /\ AgentInit /\ ScenarioIdle /\ CorrelateIdle /\ ThrottleIdle
    /\ LookupIdle /\ MemoryIdle /\ ExecIdle
    /\ collector \in Collectors
    /\ ui_tree \in SeqsUpTo(TreePalette, MaxTree)
    /\ seen_elements = {}
    /\ elements = <<>>
    /\ first_ids = {}
    /\ discover_calls = 0

OutsideDiscover == <<AgentVars, ScenarioVars, CorrelateVars, ThrottleVars,
                     LookupVars, MemoryVars, ExecVars>>

Discover ==
    /\ discover_calls < MaxDiscoverCalls
    /\ LET d == discover_ui_signals(collector, ui_tree, seen_elements) IN
          /\ elements' = d.elements
          /\ seen_elements' = d.seen
          /\ first_ids' = IF discover_calls = 0
                          THEN {d.elements[i] : i \in 1..Len(d.elements)}
                          ELSE first_ids
    /\ discover_calls' = discover_calls + 1
    /\ UNCHANGED <<collector, ui_tree>>
    /\ UNCHANGED OutsideDiscover

DiscoverNext == Discover

DiscoverSpec == DiscoverInit /\ [][DiscoverNext]_vars

\* C15: for a fixed UI tree every call of discover_ui_signals returns no
\* duplicate ids, and a later call returns the same set of ids as the first,
\* for the collector of src/py_files/perception.py and for the one of
\* src/perception.py.
C15_DedupIdempotent ==
    discover_calls >= 1 =>
        /\ \A i, j \in 1..Len(elements) : i # j => elements[i] # elements[j]
        /\ discover_calls >= 2 =>
              {elements[i] : i \in 1..Len(elements)} = first_ids

\* ============================================================ oracle throttles
\* time.time() when the engines are constructed, in seconds
StartTime == 10
\* the clock value after which no more idle time passes
MaxTime == 22
\* oracle calls made by one agent
MaxOracleCalls == 3
\* longest capture_screenshot, in seconds
MaxCapture == 1

\* min_seconds of ReasoningEngine._throttle and the 5.0 of the VLM throttle
MinSeconds == 5
VlmThrottleSeconds == 5

\* seconds since the previous event, None when there was none
GapSince(previous, t) == IF previous = None THEN None ELSE t - previous

\* ReasoningEngine._throttle: how long the call sleeps
ThrottleSleep(t, last) == IF t - last < MinSeconds THEN MinSeconds - (t - last) ELSE 0

\* the wait of capture_visual_analysis; no attribute before the first call
VlmSleep(t, last) ==
    IF last # None /\ t - last < VlmThrottleSeconds
    THEN VlmThrottleSeconds - (t - last) ELSE 0

ThrottleInit ==
    /\ AgentInit /\ ScenarioIdle /\ CorrelateIdle /\ DiscoverIdle
    /\ LookupIdle /\ MemoryIdle /\ ExecIdle
    /\ now = StartTime
    /\ last_gemini_request_time = 0
    /\ last_vlm_request_time = None
    /\ planner_request = None
    /\ planner_gap = None
    /\ vlm_request = None
    /\ vlm_request_gap = None
    /\ vlm_stamp_gap = None
    /\ first_vlm_wait = None
    /\ oracle_calls = 0

OutsideThrottle == <<AgentVars, ScenarioVars, CorrelateVars, DiscoverVars,
                     LookupVars, MemoryVars, ExecVars>>
VlmVars == <<last_vlm_request_time, vlm_request, vlm_request_gap,
             vlm_stamp_gap, first_vlm_wait>>

\* time passes between two calls
Tick ==
    /\ now < MaxTime
    /\ now' = now + 1
    /\ UNCHANGED <<last_gemini_request_time, planner_request, planner_gap,
                   VlmVars, oracle_calls>>
    /\ UNCHANGED OutsideThrottle

\* _ask_gemini_for_app_selection: generate_content with no throttle, and the
\* timestamp of the throttle is not touched
AppSelection ==
    /\ oracle_calls < MaxOracleCalls
    /\ planner_request' = now
    /\ planner_gap' = GapSince(planner_request, now)
    /\ oracle_calls' = oracle_calls + 1
    /\ UNCHANGED <<now, last_gemini_request_time, VlmVars>>
    /\ UNCHANGED OutsideThrottle

\* self._throttle() and then generate_content
ThrottledRequest ==
    LET issued == now + ThrottleSleep(now, last_gemini_request_time) IN
       /\ now' = issued
       /\ last_gemini_request_time' = issued
       /\ planner_request' = issued
       /\ planner_gap' = GapSince(planner_request, issued)

\* create_long_range_plan
CreateLongRangePlan ==
    /\ oracle_calls < MaxOracleCalls
    /\ ThrottledRequest
    /\ oracle_calls' = oracle_calls + 1
    /\ UNCHANGED VlmVars
    /\ UNCHANGED OutsideThrottle

\* analyze_with_visual, for the reasoning of an iteration and for the
\* reasoning after the action
AnalyzeWithVisual ==
    /\ oracle_calls < MaxOracleCalls
    /\ ThrottledRequest
    /\ oracle_calls' = oracle_calls + 1
    /\ UNCHANGED VlmVars
    /\ UNCHANGED OutsideThrottle

\* capture_visual_analysis of an engine that has an analyzer: the wait, the
\* timestamp, the screenshot, and the request when the screenshot succeeded
CaptureVisualAnalysis ==
    /\ oracle_calls < MaxOracleCalls
    /\ LET wait_time == VlmSleep(now, last_vlm_request_time)
           stamp == now + wait_time
       IN /\ last_vlm_request_time' = stamp
          /\ vlm_stamp_gap' = GapSince(last_vlm_request_time, stamp)
          /\ first_vlm_wait' =
                IF first_vlm_wait = None THEN wait_time ELSE first_vlm_wait
          /\ \E capture \in 0..MaxCapture, screenshot_path \in BOOLEAN :
                /\ now' = stamp + capture
                /\ IF screenshot_path
                   THEN /\ vlm_request' = stamp + capture
                        /\ vlm_request_gap' =
                              GapSince(vlm_request, stamp + capture)
                   ELSE UNCHANGED <<vlm_request, vlm_request_gap>>
    /\ oracle_calls' = oracle_calls + 1
    /\ UNCHANGED <<last_gemini_request_time, planner_request, planner_gap>>
    /\ UNCHANGED OutsideThrottle

ThrottleNext ==
    \/ Tick
    \/ AppSelection
    \/ CreateLongRangePlan
    \/ AnalyzeWithVisual
    \/ CaptureVisualAnalysis

ThrottleSpec == ThrottleInit /\ [][ThrottleNext]_vars

\* C16: any two consecutive calls of one agent to the planning oracle
\* (application selection, long-range planning, reasoning, re-reasoning)
\* start at least 5 seconds apart.
C16_PlannerThrottle ==
    planner_gap # None => planner_gap >= MinSeconds

\* C17: the visual-oracle requests of any two consecutive calls of
\* capture_visual_analysis leave at least 5 seconds apart, and the first call
\* is not delayed.
C17_VisualThrottle ==
    /\ vlm_request_gap # None => vlm_request_gap >= VlmThrottleSeconds
    /\ first_vlm_wait # None => first_vlm_wait = 0

\* ============================================================ one agent, several goals
\* C18: when no LongRangePlan can be obtained before the loop, because the
\* planning oracle fails or because the initial snapshot fails, the run still
\* enters the loop, without a plan.
C18_LongPlanBestEffort ==
    event \in {"initial_perception_error", "long_plan_error"} =>
        /\ pc = "loop"
        /\ plan_created = "none"

\* the max_iterations a caller that keeps its agent passes with every goal
IterArgsAgain == {1}

\* the next run_autonomous_loop(goal, target_app, max_iterations) on the same
\* AgentCore, after the previous call returned: the call has new arguments and
\* new locals, self.state and self.reasoning are the objects of __init__
CallAgain ==
    /\ pc = "done"
    /\ ret \in {"dict", "None"}
    /\ \E g \in GoalFamilies, arg \in IterArgsAgain :
          /\ goal' = g
          /\ max_iterations' = arg
    /\ pc' = "focus"
    /\ event' = "called"
    /\ ret' = "pending"
    /\ result' = NoResult
    /\ termination' = "none"
    /\ perception_data' = NoPerception
    /\ reasoning_result' = NoReasoning
    /\ action_result' = NoAction
    /\ post_action_perception' = NoPerception
    /\ plan_created' = "none"
    /\ UNCHANGED <<max_errors, self_max_iterations, max_iter, iterations,
                   error_count, progress, long_range_plan, fails_since_reset,
                   act_fail_streak>>
    /\ UNCHANGED Elsewhere

ReuseNext ==
    \/ Next
    \/ CallAgain

ReuseSpec == Init /\ [][ReuseNext]_vars

\* C19: every call of run_autonomous_loop starts its loop with error_count 0
\* and progress 0, also on an AgentCore that already ran a goal.
C19_StateNotShared ==
    (pc = "loop" /\ iterations = 0) =>
        /\ error_count = 0
        /\ progress = <<0, 1>>

\* C20: the goal check of a run consults the plan its own LONG_PLAN stage
\* stored, or none if that stage failed, never the plan of an earlier run.
C20_PlanPerGoal ==
    pc = "check_goal" => long_range_plan = plan_created

\* ================================================= application lookup of the collector
\* calls of discover_ui_signals on one PerceptionEngine
MaxLookupCalls == 2

\* target_app of the call: none, or an application name
RequestedApps == {"", "Calculator"}
\* the accessibility call that raises: none, getAppRefByLocalizedName and
\* getAppRefs, or app.windows()
AxFailures == {"none", "app_ref", "windows"}
\* the three launch_methods of _launch_app
LaunchMethods == 3

\* atomac.getAppRefByLocalizedName inside its try: the application, or None
\* when it is not running or the call raised
getAppRef(failure, running) == failure # "app_ref" /\ running

\* PerceptionEngine._launch_app: each method runs "open" and then looks the
\* application up; the first method whose lookup answers returns it
launch_app(failure, can_open) ==
    IF can_open /\ failure # "app_ref"
    THEN [app |-> TRUE, commands |-> 1, started |-> TRUE]
    ELSE [app |-> FALSE, commands |-> LaunchMethods, started |-> can_open]

\* the elements of the windows, [] when app.windows() raised
windows_scanned(failure, tree) ==
    IF failure = "windows" THEN <<>>
    ELSE scan_window(tree, 1, <<>>, {}).elements

\* PerceptionEngine.discover_ui_signals of src/py_files/perception.py: the
\* list it returns, the "open" commands it ran and whether the application
\* runs afterwards
discover_lookup(target, failure, running, can_open, tree) ==
    IF target # ""
    THEN IF getAppRef(failure, running)
         THEN [returned |-> [kind |-> "list",
                             elements |-> windows_scanned(failure, tree)],
               commands |-> 0, running |-> running]
         ELSE LET l == launch_app(failure, can_open) IN
              [returned |-> [kind |-> "list",
                             elements |-> IF l.app
                                          THEN windows_scanned(failure, tree)
                                          ELSE <<>>],
               commands |-> l.commands,
               running |-> running \/ l.started]
    ELSE [returned |-> [kind |-> "list",
                        elements |-> IF failure = "none" /\ running
                                     THEN windows_scanned(failure, tree)
                                     ELSE <<>>],
          commands |-> 0, running |-> running]

LookupInit ==
    /\ AgentInit /\ ScenarioIdle /\ CorrelateIdle /\ DiscoverIdle
    /\ ThrottleIdle /\ MemoryIdle /\ ExecIdle
    /\ requested_app \in RequestedApps
    /\ app_running \in BOOLEAN
    /\ ax_failure \in AxFailures
    /\ installed \in BOOLEAN
    /\ app_running => installed
    /\ app_tree \in SeqsUpTo(TreePalette, 1)
    /\ open_commands = 0
    /\ discovered = NotCalled
    /\ lookup_calls = 0
    /\ running_at_call = FALSE

OutsideLookup == <<AgentVars, ScenarioVars, CorrelateVars, DiscoverVars,
                   ThrottleVars, MemoryVars, ExecVars>>

\* one call of discover_ui_signals(target_app)
DiscoverLookup ==
    /\ lookup_calls < MaxLookupCalls
    /\ LET d == discover_lookup(requested_app, ax_failure, app_running,
                                installed, app_tree) IN
          /\ discovered' = d.returned
          /\ open_commands' = open_commands + d.commands
          /\ app_running' = d.running
    /\ running_at_call' = app_running
    /\ lookup_calls' = lookup_calls + 1
    /\ UNCHANGED <<requested_app, ax_failure, installed, app_tree>>
    /\ UNCHANGED OutsideLookup

\* the user quits the application between two calls
AppQuits ==
    /\ app_running
    /\ app_running' = FALSE
    /\ UNCHANGED <<requested_app, ax_failure, installed, app_tree,
                   open_commands, discovered, lookup_calls, running_at_call>>
    /\ UNCHANGED OutsideLookup

LookupNext ==
    \/ DiscoverLookup
    \/ AppQuits

LookupSpec == LookupInit /\ [][LookupNext]_vars

\* C21: when discover_ui_signals cannot enumerate applications or windows at
\* all, it reports a discovery-level error to its caller and not an empty or
\* partial element list.
C21_FailureIsNotEmptiness ==
    (lookup_calls >= 1 /\ ax_failure # "none") => discovered.kind = "error"

\* C22: the collector never launches an application, and for a requested
\* application that is not running it returns an empty sequence.
C22_CollectorNeverLaunches ==
    /\ open_commands = 0
    /\ (lookup_calls >= 1 /\ requested_app # "" /\ ~running_at_call) =>
          discovered.elements = <<>>

\* ================================================================ MemorySystem
\* iterations of the loop the store is followed through
MaxMemIterations == 2

\* the entry store_perception appends for a snapshot: perceive stamps the
\* snapshot and stores it
StoredPerception(pd, iteration) ==
    [indicator |-> pd.indicator, snap |-> pd.snap, timestamp |-> iteration]

\* AgentCore.perceive: perceptions as it leaves them; a failed perception
\* raises before store_perception
perceive_stores(stored, pd, iteration) ==
    IF pd.error THEN stored ELSE Append(stored, StoredPerception(pd, iteration))

\* AgentCore.reason_with_visual: reasonings as it leaves them (store_reasoning
\* is called by AgentCore.reason only)
reason_with_visual_stores(stored, rr) == stored

\* AgentCore.act: actions as it leaves them
act_stores(stored, plan) == stored \o act(plan, 0, <<0, 1>>).stored

IsPrefix(a, b) == Len(a) <= Len(b) /\ SubSeq(b, 1, Len(a)) = a
IsSuffix(a, b) ==
    Len(a) <= Len(b) /\ SubSeq(b, Len(b) - Len(a) + 1, Len(b)) = a

MemoryInit ==
    /\ AgentInit /\ ScenarioIdle /\ CorrelateIdle /\ DiscoverIdle
    /\ ThrottleIdle /\ LookupIdle /\ ExecIdle
    /\ mem_stage = "perceive"
    /\ mem_iteration = 1
    /\ mem_snapshot = NoPerception
    /\ mem_plan = NoReasoning
    /\ mem_outcome = NoAction
    /\ perceptions = <<>>
    /\ reasonings = <<>>
    /\ actions = <<>>
    /\ stored_before = <<<<>>, <<>>, <<>>>>

OutsideMemory == <<AgentVars, ScenarioVars, CorrelateVars, DiscoverVars,
                   ThrottleVars, LookupVars, ExecVars>>

\* continue, or the end of the loop body: the next iteration, if any
NextIteration ==
    /\ mem_iteration' = mem_iteration + 1
    /\ mem_stage' = IF mem_iteration < MaxMemIterations THEN "perceive"
                    ELSE "done"

\* 1. PERCEIVE of an iteration
MemPerceive ==
    /\ mem_stage = "perceive"
    /\ \E pd \in Perceptions("pre") :
          /\ mem_snapshot' = pd
          /\ perceptions' = perceive_stores(perceptions, pd, mem_iteration)
          /\ IF pd.error THEN NextIteration
             ELSE mem_stage' = "reason" /\ UNCHANGED mem_iteration
    /\ mem_plan' = NoReasoning
    /\ mem_outcome' = NoAction
    /\ stored_before' = <<perceptions, reasonings, actions>>
    /\ UNCHANGED <<reasonings, actions>>
    /\ UNCHANGED OutsideMemory

\* 2. REASON of an iteration
MemReason ==
    /\ mem_stage = "reason"
    /\ \E rr \in Reasonings("reason") :
          /\ mem_plan' = rr
          /\ reasonings' = reason_with_visual_stores(reasonings, rr)
          /\ IF rr.error THEN NextIteration
             ELSE mem_stage' = "act" /\ UNCHANGED mem_iteration
    /\ stored_before' = <<perceptions, reasonings, actions>>
    /\ UNCHANGED <<mem_snapshot, mem_outcome, perceptions, actions>>
    /\ UNCHANGED OutsideMemory

\* 3. ACT of an iteration
MemAct ==
    /\ mem_stage = "act"
    /\ mem_outcome' = act(mem_plan.plan, 0, <<0, 1>>).action_result
    /\ actions' = act_stores(actions, mem_plan.plan)
    /\ mem_stage' = "acted"
    /\ stored_before' = <<perceptions, reasonings, actions>>
    /\ UNCHANGED <<mem_iteration, mem_snapshot, mem_plan, perceptions,
                   reasonings>>
    /\ UNCHANGED OutsideMemory

\* 4. OBSERVE after a successful ACT: the post-action perception and the
\* reasoning on it; after a failed ACT the loop continues
MemObserve ==
    /\ mem_stage = "acted"
    /\ IF mem_outcome.success
       THEN \E pap \in Perceptions("post") :
               /\ perceptions' = perceive_stores(perceptions, pap, mem_iteration)
               /\ \E updated_reasoning \in
                        IF pap.error THEN {NoReasoning}
                        ELSE Reasonings("re_reason") :
                     reasonings' =
                        IF pap.error THEN reasonings
                        ELSE reason_with_visual_stores(reasonings,
                                                       updated_reasoning)
       ELSE UNCHANGED <<perceptions, reasonings>>
    /\ NextIteration
    /\ stored_before' = <<perceptions, reasonings, actions>>
    /\ UNCHANGED <<mem_snapshot, mem_plan, mem_outcome, actions>>
    /\ UNCHANGED OutsideMemory

MemoryNext ==
    \/ MemPerceive
    \/ MemReason
    \/ MemAct
    \/ MemObserve

MemorySpec == MemoryInit /\ [][MemoryNext]_vars

\* C23: after an iteration that completed PERCEIVE, REASON and ACT the store
\* holds that iteration's snapshot, its plan and the outcome of the executed
\* step, and no earlier entry was removed or rewritten.
C23_HistoryStoreCopies ==
    /\ IsPrefix(stored_before[1], perceptions)
    /\ IsPrefix(stored_before[2], reasonings)
    /\ IsPrefix(stored_before[3], actions)
    /\ (mem_stage = "acted" /\ mem_outcome.results # <<>>) =>
          /\ perceptions # <<>>
          /\ perceptions[Len(perceptions)] =
                StoredPerception(mem_snapshot, mem_iteration)
          /\ reasonings # <<>>
          /\ reasonings[Len(reasonings)] = mem_plan
          /\ IsSuffix(mem_outcome.results, actions)

\* ============================================================ ACT and OBSERVE in the loop
\* C24: an iteration whose executed step returned success = false without
\* raising is an ACT failure, for plans of any length: error_count is
\* incremented and not reset, and neither OBSERVE nor CHECK_GOAL runs.
C24_FailedStepFailsAct ==
    (event \in {"act_ok", "act_failed"}
     /\ action_result.results # <<>>
     /\ action_result.results[Len(action_result.results)] = "fail") =>
        /\ event = "act_failed"
        /\ pc = "loop"
        /\ error_count >= 1

\* C25: a failed iteration increases error_count by exactly one, whichever way
\* it failed, so error_count equals the number of failed iterations since it
\* was last 0 and never exceeds max_errors.
C25_OneErrorPerFailure ==
    /\ error_count <= max_errors
    /\ pc \in {"loop", "perceive", "reason", "act"} =>
          error_count = fails_since_reset

\* C26: whenever the OBSERVE perception after a successful ACT succeeded, the
\* goal check of that iteration is evaluated on that snapshot and not on the
\* one taken before the action, whether or not the re-REASON succeeded.
C26_GoalCheckOnFreshSnapshot ==
    (pc = "check_goal"
     /\ post_action_perception.snap = "post"
     /\ ~post_action_perception.error) =>
        perception_data = post_action_perception

\* what _parse_gemini_response returns for a reply it cannot parse
ParserFallback(from) ==
    [error |-> FALSE, plan |-> <<>>, confidence |-> 0, from |-> from]

\* C27: when the re-REASON after the action fails, by an oracle error or by a
\* reply that cannot be parsed, the Plan and the confidence of the iteration
\* stay in effect for the goal check and the confidence gate, so a Plan of
\* confidence 0.1 or more is not turned into a low-confidence abort.
C27_FailedReReasonKeepsConfidence ==
    [][(pc = "re_reason"
        /\ reasoning_result.confidence >= AbortConfidence
        /\ \/ event' = "re_reason_error"
           \/ reasoning_result' = ParserFallback("re_reason"))
       => reasoning_result'.confidence = reasoning_result.confidence]_vars

\* the entry of results for a step of each kind
StepOutcome(kind) == IF kind = "raise" THEN "error" ELSE kind

\* C28: every executed step is the first step of the Plan that REASON returned
\* in the same iteration: a step is executed by ACT only, never from the Plan
\* of the re-REASON or of an earlier iteration, and never a step after the
\* first.
C28_NoStalePlan ==
    [][(action_result' # action_result /\ action_result'.results # <<>>)
       => /\ pc = "act"
          /\ reasoning_result.from = "reason"
          /\ reasoning_result.plan # <<>>
          /\ action_result'.results =
                <<StepOutcome(reasoning_result.plan[1])>>]_vars

\* the second iteration has executed the first step of a two-step Plan
C28_Witness ==
    /\ iterations = 2
    /\ event = "act_ok"
    /\ reasoning_result.from = "reason"
    /\ reasoning_result.plan = <<"ok", "ok">>
    /\ action_result.results = <<"ok">>

\* C37: a result with success = true has errors = 0 and progress = 1.0, and
\* the iteration that reports it has run act with at least one executed
\* step: OBSERVE is entered only from a successful act of the same
\* iteration, and CHECK_GOAL only from OBSERVE of that iteration.
C37_SuccessAfterAct ==
    [][/\ (ret' = "dict" /\ result'.success /\ ret # "dict")
          => /\ result'.errors = 0
             /\ result'.progress = <<1, 1>>
             /\ pc = "check_goal"
             /\ result'.iterations = iterations
             /\ action_result.success
             /\ Len(action_result.results) >= 1
       /\ (pc' = "check_goal" /\ pc # "check_goal")
          => /\ pc \in {"observe", "re_reason"}
             /\ iterations' = iterations
             /\ action_result' = action_result
             /\ action_result.success
             /\ Len(action_result.results) >= 1
       /\ (pc' = "re_reason" /\ pc # "re_reason")
          => /\ pc = "observe"
             /\ iterations' = iterations
             /\ action_result' = action_result
       /\ (pc' = "observe" /\ pc # "observe")
          => /\ pc = "act"
             /\ iterations' = iterations
             /\ action_result'.success
             /\ Len(action_result'.results) >= 1]_vars

\* success reported by the second iteration, whose act executed one step
C37_Witness ==
    /\ ret = "dict"
    /\ result.success
    /\ result.iterations = 2
    /\ result.errors = 0
    /\ result.progress = <<1, 1>>
    /\ action_result.success
    /\ Len(action_result.results) = 1

\* ============================================== ActionEngine.execute_action
\* the names for which the engine has a method _execute_<name>
MethodNames ==
    {"click", "type", "press_enter", "select", "scroll", "wait", "key",
     "keystroke", "press", "generic_action"}
\* the operations of an ActionStep
SupportedOperations ==
    {"click", "type", "keystroke", "key", "select", "scroll", "wait",
     "launchapp"}

OperationNames ==
    {"click", "wait", "Toggle", "hover", "press_enter", "press",
     "generic_action"}
\* the element the target names: present or not, and which of AX<Name>,
\* AXPress, AXPerformAction, AXPosition and AXSetFocused hasattr finds on it
Widgets ==
    {NoWidget} \cup
    [present : {TRUE}, AXNamed : BOOLEAN, AXPress : BOOLEAN,
     AXPerformAction : BOOLEAN, AXPosition : BOOLEAN, AXSetFocused : BOOLEAN]
\* the screenshot before a click fails, or the region changes or does not
Screens == {"no_screenshot", "changed", "unchanged"}

Did(success, presses, keys) ==
    [success |-> success, presses |-> presses, keys |-> keys]

\* ActionEngine._execute_click
execute_click(el, shot) ==
    IF ~el.present THEN Did(FALSE, 0, 0)
    ELSE IF ~(el.AXPress \/ el.AXPerformAction \/ el.AXPosition)
    THEN Did(FALSE, 0, 0)
    ELSE IF el.AXPosition /\ shot = "unchanged"
    THEN Did(FALSE, 1, 0)
    ELSE Did(TRUE, 1, 0)

\* ActionEngine._execute_wait
execute_wait == Did(TRUE, 0, 0)

\* ActionEngine._execute_key
execute_key == Did(TRUE, 0, 1)

\* ActionEngine._execute_press_enter
execute_press_enter(el) ==
    IF ~el.present THEN Did(FALSE, 0, 0)
    ELSE IF el.AXSetFocused THEN Did(TRUE, 0, 1)
    ELSE IF el.AXPress \/ el.AXPosition THEN Did(TRUE, 1, 1)
    ELSE Did(TRUE, 0, 1)

\* ActionEngine._execute_generic_action
execute_generic_action(el) ==
    IF ~el.present THEN Did(FALSE, 0, 0)
    ELSE IF el.AXNamed THEN Did(TRUE, 0, 0)
    ELSE IF el.AXPress \/ el.AXPerformAction \/ el.AXPosition
    THEN Did(TRUE, 1, 0)
    ELSE Did(FALSE, 0, 0)

\* ActionEngine.execute_action: the method _execute_<action_type> when the
\* engine has one, called with the arguments of its arm, and the generic
\* action otherwise; a method called with too few arguments raises, which
\* the except turns into a failed outcome
execute_action(step, el, shot) ==
    LET action_type == lower(step.action) IN
    IF action_type \in MethodNames
    THEN CASE action_type = "click" -> execute_click(el, shot)
           [] action_type = "wait" -> execute_wait
           [] action_type \in {"key", "press"} -> execute_key
           [] action_type = "press_enter" -> execute_press_enter(el)
           [] OTHER -> Did(FALSE, 0, 0)
    ELSE execute_generic_action(el)

ExecInit ==
    /\ AgentInit /\ ScenarioIdle /\ CorrelateIdle /\ DiscoverIdle
    /\ ThrottleIdle /\ LookupIdle /\ MemoryIdle
    /\ exec_step \in [action : OperationNames, target : {"ok_button"}]
    /\ exec_element \in Widgets
    /\ screen \in Screens
    /\ exec_result = NotExecuted
    /\ element_presses = 0
    /\ key_events = 0

OutsideExec == <<AgentVars, ScenarioVars, CorrelateVars, DiscoverVars,
                 ThrottleVars, LookupVars, MemoryVars>>

ExecuteAction ==
    /\ ~exec_result.called
    /\ LET r == execute_action(exec_step, exec_element, screen) IN
          /\ exec_result' = [called |-> TRUE, success |-> r.success]
          /\ element_presses' = element_presses + r.presses
          /\ key_events' = key_events + r.keys
    /\ UNCHANGED <<exec_step, exec_element, screen>>
    /\ UNCHANGED OutsideExec

ExecNext == ExecuteAction

ExecSpec == ExecInit /\ [][ExecNext]_vars

\* C34: execute_action for a step whose operation name is outside the
\* supported set returns success = false and makes no press or click on any
\* UI element.
C34_UnsupportedRejected ==
    (/\ exec_result.called
     /\ lower(exec_step.action) \notin SupportedOperations)
    => /\ ~exec_result.success
       /\ element_presses = 0

====
